---- MODULE Spec2Model ----
(***************************************************************************)
(* Model of the portfolio-tracker backend: cursor-based bank transaction   *)
(* sync, the categorization resolver, the bank health check, the webhook   *)
(* and the token exchange, over the relational store they share.           *)
(***************************************************************************)
EXTENDS Integers, Sequences, FiniteSets, TLC

\* ------------------------------------------------------------------------
\* Bounds of the model
\* ------------------------------------------------------------------------
MaxPages == 2
MaxNameLen == 2
MaxMerchLen == 1
MaxRules == 2
MaxDays == 1
MaxMonths == 2

\* ------------------------------------------------------------------------
\* Optional values (Go nil pointers, SQL NULL)
\* ------------------------------------------------------------------------
None == <<>>
Some(x) == <<x>>
IsSome(o) == Len(o) = 1
Get(o) == o[1]

\* ------------------------------------------------------------------------
\* Strings are sequences of characters; strings.ToLower / strings.Contains
\* ------------------------------------------------------------------------
Chars == {"a", "A", "b"}

ToLowerChar(c) == IF c = "A" THEN "a" ELSE c

ToLower(s) == [k \in 1..Len(s) |-> ToLowerChar(s[k])]

Contains(s, sub) ==
    \E k \in 0..(Len(s) - Len(sub)) : SubSeq(s, k + 1, k + Len(sub)) = sub

RECURSIVE StringsOfLen(_)
StringsOfLen(n) ==
    IF n = 0 THEN {<<>>}
    ELSE {Append(s, c) : s \in StringsOfLen(n - 1), c \in Chars}

StringsUpTo(n) == UNION {StringsOfLen(k) : k \in 0..n}

\* ------------------------------------------------------------------------
\* Categories (seed rows of the categories table, ids in insertion order)
\* ------------------------------------------------------------------------
Categories ==
    { [id |-> 1,  name |-> "Uncategorized",  plaid_name |-> None,                   expense |-> TRUE],
      [id |-> 2,  name |-> "Food and Drink", plaid_name |-> Some("Food and Drink"), expense |-> TRUE],
      [id |-> 5,  name |-> "Transfer",       plaid_name |-> Some("Transfer"),       expense |-> FALSE],
      [id |-> 16, name |-> "Venmo",          plaid_name |-> None,                   expense |-> TRUE],
      [id |-> 17, name |-> "Investments",    plaid_name |-> None,                   expense |-> FALSE] }

\* Provider primary categories: two with an alias row, one without.
PrimaryCategories == {"Food and Drink", "Transfer", "Other"}

\* The plaidNameToCategoryID map built at the start of a sync.
PlaidNameToCategoryID(categories) ==
    [n \in {Get(c.plaid_name) : c \in {d \in categories : IsSome(d.plaid_name)}} |->
        (CHOOSE c \in categories : c.plaid_name = Some(n)).id]

\* The uncategorizedID found by the same loop (0 when no such row).
UncategorizedID(categories) ==
    IF \E c \in categories : ~IsSome(c.plaid_name) /\ c.name = "Uncategorized"
    THEN (CHOOSE c \in categories : ~IsSome(c.plaid_name) /\ c.name = "Uncategorized").id
    ELSE 0

\* ------------------------------------------------------------------------
\* Category rules
\* ------------------------------------------------------------------------
\* The rows in descending id order.
RECURSIVE SortRulesByIDDesc(_)
SortRulesByIDDesc(rs) ==
    IF rs = {} THEN <<>>
    ELSE LET first == CHOOSE r \in rs : \A q \in rs : r.id >= q.id
         IN  <<first>> \o SortRulesByIDDesc(rs \ {first})

\* The rows in ascending id order.
RECURSIVE SortRulesByID(_)
SortRulesByID(rs) ==
    IF rs = {} THEN <<>>
    ELSE LET first == CHOOSE r \in rs : \A q \in rs : r.id <= q.id
         IN  <<first>> \o SortRulesByID(rs \ {first})

\* ListCategoryRules: the rows of category_rules with order=id.asc.
ListCategoryRules(rows) == SortRulesByID(rows)

\* The rule test of the resolver's loop body.
RuleMatches(rule, name, merchantName) ==
    LET match == ToLower(rule.match_string)
    IN  Contains(name, match) \/ (merchantName # <<>> /\ Contains(merchantName, match))

\* The resolver's loop over the rules: the category of the first match.
RECURSIVE FirstRuleCategory(_, _, _, _)
FirstRuleCategory(rules, k, name, merchantName) ==
    IF k > Len(rules) THEN None
    ELSE IF RuleMatches(rules[k], name, merchantName) THEN Some(rules[k].category_id)
    ELSE FirstRuleCategory(rules, k + 1, name, merchantName)

\* Amounts of at most 9.995 that end in half a cent and whose float64 product
\* with 100 lies below the half (1.005 * 100 is 100.49999999999999).
HalfCentsBelow ==
    { 145, 285, 565, 575, 1005, 1015, 1025, 1035, 1255, 1265, 1275, 2135,
      2155, 2175, 2195, 2385, 2405, 2425, 2445, 4015, 4145, 4185, 4225, 4265,
      4395, 4435, 4475, 4515, 4645, 4685, 4725, 4765, 4895, 4935, 4975, 5015,
      8075, 8155, 8165, 8245, 8325, 8405, 8415, 8495, 8575, 8655, 8665, 8745,
      8825, 8905, 8915, 8995, 9075, 9155, 9165, 9245, 9325, 9405, 9415, 9495,
      9575, 9655, 9665, 9745, 9825, 9905, 9915, 9995 }

\* int64(math.Round(p.Amount * 100)), the amount given in thousandths, for
\* amounts from -9.999 to 9.999: the float64 product is rounded half away
\* from zero; away from the half cents the product is at least 0.1 from a
\* half, on them the product decides.
AmountCents(mills) ==
    LET a == IF mills >= 0 THEN mills ELSE -mills
        cents == CASE a \in HalfCentsBelow -> a \div 10
                   [] a \notin HalfCentsBelow /\ a <= 9999 -> (a + 5) \div 10
    IN  IF mills >= 0 THEN cents ELSE -cents

\* The category a provider transaction resolves to.
ResolveCategory(p, plaidNameToCategoryID, uncategorizedID, rules) ==
    LET name == ToLower(p.name)
        merchantName == IF IsSome(p.merchant_name) THEN ToLower(Get(p.merchant_name)) ELSE <<>>
        byRule == FirstRuleCategory(rules, 1, name, merchantName)
    IN  IF IsSome(byRule) THEN byRule
        ELSE IF Len(p.category) > 0
             THEN IF p.category[1] \in DOMAIN plaidNameToCategoryID
                  THEN Some(plaidNameToCategoryID[p.category[1]])
                  ELSE Some(uncategorizedID)
             ELSE None

plaidTransactionToDB(p, plaidNameToCategoryID, uncategorizedID, rules) ==
    [ plaid_account_id     |-> p.account_id,
      plaid_transaction_id |-> p.transaction_id,
      date                 |-> p.date,
      amount_cents         |-> AmountCents(p.amount),
      name                 |-> p.name,
      merchant_name        |-> p.merchant_name,
      category_id          |-> ResolveCategory(p, plaidNameToCategoryID, uncategorizedID, rules),
      pending              |-> p.pending ]

\* ------------------------------------------------------------------------
\* Bank items, transactions and the provider's change-streams
\* ------------------------------------------------------------------------
Items == {"i1", "i2"}

\* account_id values of the accounts the provider reports for an item
PlaidAccountIDs == {"c1", "c2"}
Insts == {"b1"}
Procs == {"nightly", "manual"}

\* Transaction identifiers are globally unique; each belongs to one item.
TxnOf(i) == IF i = "i1" THEN {"t1", "t2"} ELSE {}

\* The rows of category_rules after the migration: two rules, ids ascending,
\* neither match string contained in the other ('venmo', 'fidelity').
SeedRules ==
    { [id |-> 1, match_string |-> <<"a">>, category_id |-> 16],
      [id |-> 2, match_string |-> <<"b">>, category_id |-> 17] }

\* What the provider reports for a transaction when it is added (version 1)
\* and after it was modified (version 2).
ProviderTxn(id, ver) ==
    IF ver = 1
    THEN [ transaction_id |-> id, account_id |-> "acc", amount |-> 1255, date |-> 1,
           name |-> <<"A">>, merchant_name |-> Some(<<"b">>),
           category |-> <<"Transfer">>, pending |-> TRUE ]
    ELSE [ transaction_id |-> id, account_id |-> "acc", amount |-> -2004, date |-> 2,
           name |-> <<"b">>, merchant_name |-> None,
           category |-> <<>>, pending |-> FALSE ]

\* One page of a change-stream: what happened to each transaction of the item.
PagesOf(i) == [TxnOf(i) -> {"none", "added", "modified", "removed"}]

\* Cursor strings: "" is <<>>, the provider's tokens are <<item, position>>.
EmptyStr == <<>>
CursorStr(i, k) == <<i, k>>
Pos(c) == IF c = EmptyStr THEN 0 ELSE c[2]

\* A row of plaid_items (exists = FALSE: no row with that item_id).
NoItemRow == [exists |-> FALSE, status |-> "", cursor |-> None, pending |-> FALSE, inst |-> None]

ItemLoginRequired == "ITEM_LOGIN_REQUIRED"

VARIABLES
    items,      \* plaid_items: item_id -> row
    txns,       \* transactions: set of rows
    ruleRows,   \* category_rules: set of rows
    stream,     \* provider: item -> sequence of pages of its change-stream
    used,       \* provider: item ids it has issued
    linkTokens, \* provider: items for which a link token in update mode is outstanding
    plaidAccounts, \* plaid_accounts: account_id -> plaid_item_id ("" without row)
    committed,  \* history: item -> [pos, rows] at the last persisted cursor
    proc,       \* the two batch entry points and their position
    req,        \* the other request handlers in progress and their position
    catIn,      \* resolver check: the provider transaction given
    catOut,     \* resolver check: the transaction produced (None before)
    user,       \* snaptrade_user: whether the row exists
    conns,      \* snaptrade_connections: conn_id -> row
    daily,      \* daily_snapshots: set of rows
    holdings,   \* daily_holdings: set of rows
    monthly,    \* monthly_snapshots: set of rows
    today,      \* the calendar date (UTC) of the clock
    cronSecret, \* configuration: the value of CRON_SECRET
    http,       \* history: the answer to the latest request, when it was one to
                \* the webhook endpoint, to the budget endpoint or a rejected
                \* batch trigger
    tab,        \* frontend: visibility of the app's tab and the state of each
                \* openSnaptradeConnect call
    retention   \* the retention pass of the specification and its position

snapVars == <<user, conns, daily, holdings, monthly, today, cronSecret>>

brokerVars == <<user, conns, daily, holdings, monthly, today, cronSecret, http>>

\* What no step of a handler or of a batch changes after the start.
fixedVars == <<ruleRows, catIn, catOut, tab, retention>>

vars == <<items, txns, ruleRows, stream, used, linkTokens, plaidAccounts, committed, proc, req, catIn, catOut,
          user, conns, daily, holdings, monthly, today, cronSecret, http, tab, retention>>

\* Everything but the frontend.
backendVars == <<items, txns, ruleRows, stream, used, linkTokens, plaidAccounts, committed, proc, req, catIn,
                 catOut, user, conns, daily, holdings, monthly, today, cronSecret, http, retention>>

\* ------------------------------------------------------------------------
\* The store (PostgREST). Every request carries Prefer: return=representation
\* and no resolution preference, so a POST is a plain INSERT whatever its
\* on_conflict parameter: when a row with a key of the payload is stored the
\* store answers 409 and writes nothing. A store operator yields the
\* store's answer (err) and the rows afterwards.
\* ------------------------------------------------------------------------
\* UpsertTransactions: one POST of all records (plaid_transaction_id UNIQUE).
UpsertTransactions(store, recs) ==
    IF \E rec \in recs : \E r \in store : r.plaid_transaction_id = rec.plaid_transaction_id
    THEN [err |-> TRUE, rows |-> store]
    ELSE [err |-> FALSE, rows |-> store \cup recs]

DeleteNothing(store, ids) == store

DeleteTransactionsByPlaidIDs(store, ids) ==
    {r \in store : r.plaid_transaction_id \notin ids}

\* An upsert that replaces the stored row of the item by the payload.
UpsertPlaidItemMerging(rows, itemID, payload) ==
    [err |-> FALSE,
     rows |-> [rows EXCEPT ![itemID] =
                 [exists |-> TRUE, status |-> payload.status, cursor |-> payload.cursor,
                  pending |-> payload.pending, inst |-> payload.inst]]]

\* UpsertPlaidItem: one POST of the item (item_id UNIQUE; a payload read
\* from the store also carries the row's id, the primary key). The columns
\* the payload lacks are NULL in the new row.
UpsertPlaidItem(rows, itemID, payload) ==
    IF rows[itemID].exists
    THEN [err |-> TRUE, rows |-> rows]
    ELSE [err |-> FALSE,
          rows |-> [rows EXCEPT ![itemID] =
                      [exists |-> TRUE, status |-> payload.status, cursor |-> payload.cursor,
                       pending |-> payload.pending, inst |-> payload.inst]]]

\* A PATCH of the flag alone.
UpdatePlaidItemPendingOnly(rows, itemID, cursor, pending) ==
    IF rows[itemID].exists
    THEN [rows EXCEPT ![itemID].pending = pending]
    ELSE rows

\* UpdatePlaidItemCursorAndPending: PATCH of the two columns by item_id.
UpdatePlaidItemCursorAndPending(rows, itemID, cursor, pending) ==
    IF rows[itemID].exists
    THEN [rows EXCEPT ![itemID].cursor = Some(cursor), ![itemID].pending = pending]
    ELSE rows

SetPendingOnEveryItem(rows, itemID, pending) ==
    [i \in Items |-> IF rows[i].exists THEN [rows[i] EXCEPT !.pending = pending] ELSE rows[i]]

\* SetItemNewTransactionsPending: PATCH of the flag by item_id.
SetItemNewTransactionsPending(rows, itemID, pending) ==
    IF itemID \in Items /\ rows[itemID].exists
    THEN [rows EXCEPT ![itemID].pending = pending]
    ELSE rows

\* ListPlaidItems / ListPlaidItemsWithPendingTransactions: snapshots of rows.
ListPlaidItems(rows) ==
    {[item_id |-> i, row |-> rows[i]] : i \in {j \in Items : rows[j].exists}}

ListPlaidItemsWithPendingTransactions(rows) ==
    {s \in ListPlaidItems(rows) : s.row.pending}

\* GetPlaidItemByItemID: the row of the item ("" when there is none).
GetPlaidItemByItemID(rows, itemID) == IF rows[itemID].exists THEN itemID ELSE ""

\* GetPlaidItemByInstitutionID: the rows of the institution; limit=1 gives
\* one of them.
GetPlaidItemByInstitutionID(rows, inst) ==
    {i \in Items : rows[i].exists /\ rows[i].inst = Some(inst)}

\* GetAccounts: the accounts of the institution named in the request.
PlaidAccountsOf(inst) == IF inst = "" THEN {} ELSE PlaidAccountIDs

\* DeletePlaidItem: the row, and by ON DELETE CASCADE the accounts of it.
DeletePlaidItem(rows, itemID) == [rows EXCEPT ![itemID] = NoItemRow]

CascadePlaidAccounts(accts, itemID) ==
    [a \in PlaidAccountIDs |-> IF accts[a] = itemID THEN "" ELSE accts[a]]

\* DeletePlaidAccountsByItemID: the accounts of the item.
DeletePlaidAccountsByItemID(accts, itemID) ==
    [a \in PlaidAccountIDs |-> IF accts[a] = itemID THEN "" ELSE accts[a]]

\* UpsertPlaidAccounts: no request for an empty list; else one POST of all
\* rows (account_id UNIQUE, plaid_item_id REFERENCES plaid_items).
UpsertPlaidAccounts(accts, rows, itemID, accounts) ==
    IF accounts = {} THEN [err |-> FALSE, rows |-> accts]
    ELSE IF (\E a \in accounts : accts[a] # "") \/ ~rows[itemID].exists
    THEN [err |-> TRUE, rows |-> accts]
    ELSE [err |-> FALSE,
          rows |-> [a \in PlaidAccountIDs |-> IF a \in accounts THEN itemID ELSE accts[a]]]

\* ------------------------------------------------------------------------
\* The provider's incremental-sync primitive
\* ------------------------------------------------------------------------
NoResult == [added |-> {}, modified |-> {}, removed |-> {}, next_cursor |-> EmptyStr, has_more |-> FALSE]

TransactionsSync(i, cursor) ==
    LET k == Pos(cursor)
    IN  IF k < Len(stream[i])
        THEN LET page == stream[i][k + 1]
             IN  [ added       |-> {ProviderTxn(t, 1) : t \in {u \in TxnOf(i) : page[u] = "added"}},
                   modified    |-> {ProviderTxn(t, 2) : t \in {u \in TxnOf(i) : page[u] = "modified"}},
                   removed     |-> {u \in TxnOf(i) : page[u] = "removed"},
                   next_cursor |-> CursorStr(i, k + 1),
                   has_more    |-> k + 1 < Len(stream[i]) ]
        ELSE [NoResult EXCEPT !.next_cursor = CursorStr(i, k)]

\* ------------------------------------------------------------------------
\* Brokerage connections and portfolio snapshots: the store
\* ------------------------------------------------------------------------
ConnIDs == {"c1", "c2"}
Accounts == {"a1", "a2"}
Symbols == {"s1"}

\* A row of snaptrade_connections (exists = FALSE: no row with that conn_id).
NoConnRow == [exists |-> FALSE, status |-> ""]

\* What db.GetSnaptradeUser comes back with: the row, no row (also on a
\* non-2xx answer), or a transport error.
UserReads == {"ok", "none", "err"}

GetSnaptradeUser(userRead) == IF userRead = "ok" /\ user THEN "ok" ELSE IF userRead = "err" THEN "err" ELSE "none"

ListSnaptradeConnections(rows) == {c \in ConnIDs : rows[c].exists}

\* An upsert that overwrites the status of the stored connections.
UpsertSnaptradeConnectionsMerging(rows, dbConns) ==
    [err |-> FALSE,
     rows |-> [c \in ConnIDs |-> IF c \in DOMAIN dbConns
                                 THEN [exists |-> TRUE, status |-> dbConns[c]]
                                 ELSE IF DOMAIN dbConns = {} THEN NoConnRow ELSE rows[c]]]

\* UpsertSnaptradeConnections up to its first request: with no connection
\* from the API a DELETE of every row, else one POST of all connections
\* (conn_id UNIQUE).
UpsertSnaptradeConnections(rows, dbConns) ==
    IF DOMAIN dbConns = {}
    THEN [err |-> FALSE, rows |-> [c \in ConnIDs |-> NoConnRow]]
    ELSE IF \E c \in DOMAIN dbConns : rows[c].exists
    THEN [err |-> TRUE, rows |-> rows]
    ELSE [err |-> FALSE,
          rows |-> [c \in ConnIDs |-> IF c \in DOMAIN dbConns
                                      THEN [exists |-> TRUE, status |-> dbConns[c]]
                                      ELSE rows[c]]]

\* deleteSnaptradeConnectionsNotIn: DELETE of the rows of the other conn_ids.
deleteSnaptradeConnectionsNotIn(rows, existingIDs) ==
    [c \in ConnIDs |-> IF c \in existingIDs THEN rows[c] ELSE NoConnRow]

\* DeleteSnaptradeConnection: DELETE by conn_id.
DeleteSnaptradeConnection(rows, connID) == [rows EXCEPT ![connID] = NoConnRow]

\* One request of UpdateSnaptradeConnectionStatuses: PATCH of the status by
\* conn_id (no row: nothing is written and the store answers 2xx).
PatchSnaptradeConnectionStatus(rows, connID, status) ==
    IF rows[connID].exists THEN [rows EXCEPT ![connID].status = status] ELSE rows


\* UpsertDailyHolding: one POST (UNIQUE(date, account_id, symbol)).
UpsertDailyHolding(store, holding) ==
    IF \E r \in store : /\ r.date = holding.date
                        /\ r.account_id = holding.account_id
                        /\ r.symbol = holding.symbol
    THEN [err |-> TRUE, rows |-> store]
    ELSE [err |-> FALSE, rows |-> store \cup {holding}]

\* An upsert that replaces the stored row of the date.
UpsertDailySnapshotMerging(store, snapshot) ==
    [err |-> FALSE, rows |-> {r \in store : r.date # snapshot.date} \cup {snapshot}]

\* UpsertDailySnapshot: one POST (date UNIQUE).
UpsertDailySnapshot(store, snapshot) ==
    IF \E r \in store : r.date = snapshot.date
    THEN [err |-> TRUE, rows |-> store]
    ELSE [err |-> FALSE, rows |-> store \cup {snapshot}]

\* UpsertMonthlySnapshot: one POST (UNIQUE(month, account_id)).
UpsertMonthlySnapshot(store, snapshot) ==
    IF \E r \in store : r.month = snapshot.month /\ r.account_id = snapshot.account_id
    THEN [err |-> TRUE, rows |-> store]
    ELSE [err |-> FALSE, rows |-> store \cup {snapshot}]

\* Calendar dates (UTC) as year, month, day; time.AddDate(0, 0, 1).
IsLeapYear(y) == (y % 4 = 0 /\ y % 100 # 0) \/ y % 400 = 0

DaysInMonth(y, m) ==
    IF m = 2 THEN (IF IsLeapYear(y) THEN 29 ELSE 28)
    ELSE IF m \in {4, 6, 9, 11} THEN 30 ELSE 31

AddDay(date) ==
    IF date.d < DaysInMonth(date.y, date.m) THEN [date EXCEPT !.d = @ + 1]
    ELSE IF date.m < 12 THEN [y |-> date.y, m |-> date.m + 1, d |-> 1]
    ELSE [y |-> date.y + 1, m |-> 1, d |-> 1]

RECURSIVE AddDays(_, _)
AddDays(date, n) == IF n = 0 THEN date ELSE AddDays(AddDay(date), n - 1)

\* The first date of the clock: the day before a month's last day.
StartDate == [y |-> 2024, m |-> 2, d |-> 28]

\* No retention pass under way: its position, the month it works on, the
\* tables whose rows of the month it has still to delete, and history: the
\* dates of the daily rows that the last pass deleted.
IdleRetention == [pc |-> "idle", month |-> [StartDate EXCEPT !.d = 1], tables |-> {}, deleted |-> {}]

IsThirtiethOrLater(date) == date.d >= 30

\* tomorrow.Month() != today.Month()
IsLastDayOfMonth(date) == AddDay(date).m # date.m

\* No answer recorded.
NoResponse == [handler |-> "none", status |-> 0]

\* The shared secret the deployment configures.
ConfiguredSecret == "k"

\* ------------------------------------------------------------------------
\* The frontend: openSnaptradeConnect (lib/snaptrade.ts)
\* ------------------------------------------------------------------------
\* Calls of openSnaptradeConnect, each with its own closure.
Calls == {1, 2}

\* The closure of a call: where the call is, its cleanedUp flag, whether its
\* listener is registered and its timeout armed, the state of its sync
\* request, and history: the sync requests it sent and the onConnected
\* calls it made.
NoCall == [pc |-> "none", cleanedUp |-> FALSE, listening |-> FALSE, timerArmed |-> FALSE,
           sync |-> "none", syncs |-> 0, callbacks |-> 0]

InitTab == [visible |-> TRUE, call |-> [c \in Calls |-> NoCall]]

\* cleanup()
cleanup(t) ==
    IF t.cleanedUp THEN t
    ELSE [t EXCEPT !.cleanedUp = TRUE, !.listening = FALSE, !.timerArmed = FALSE]

onReturnKeepingListener(t) ==
    [t EXCEPT !.sync = "pending", !.syncs = @ + 1]

\* onReturn(): cleanup, then the sync request is sent
onReturn(t) ==
    [cleanup(t) EXCEPT !.sync = "pending", !.syncs = @ + 1]

\* onVisibilityChange()
onVisibilityChange(t, visible) ==
    IF t.listening /\ visible THEN onReturn(t) ELSE t

\* openSnaptradeConnect up to its await: the connect-url request is sent,
\* whether the tab is shown or hidden.
openSnaptradeConnect(c) ==
    /\ tab.call[c].pc = "none"
    /\ tab' = [tab EXCEPT !.call[c].pc = "requested"]
    /\ UNCHANGED backendVars

\* The connect-url request of a call settles and the call resumes: when the
\* request failed the call throws and nothing is set up; else the portal is
\* opened, the listener registered and the timeout armed, whether the tab is
\* shown or hidden.
ConnectURLSettled(c, urlOk) ==
    /\ tab.call[c].pc = "requested"
    /\ tab' = [tab EXCEPT !.call[c] =
                 IF urlOk
                 THEN [@ EXCEPT !.pc = "opened", !.listening = TRUE, !.timerArmed = TRUE]
                 ELSE [@ EXCEPT !.pc = "failed"]]
    /\ UNCHANGED backendVars

\* The browser: the tab is hidden or shown; every registered listener runs.
VisibilityChange ==
    /\ tab' = [visible |-> ~tab.visible,
               call |-> [c \in Calls |-> onVisibilityChange(tab.call[c], ~tab.visible)]]
    /\ UNCHANGED backendVars

\* The browser: the 5-minute timeout of a call fires.
ReturnTimeout(c) ==
    /\ tab.call[c].timerArmed
    /\ tab' = [tab EXCEPT !.call[c] = cleanup(@)]
    /\ UNCHANGED backendVars

\* The sync request of a call settles; .then or .catch runs onConnected, and
\* .catch runs it again when it threw inside .then.
SyncConnectionsSettled(c, ok, callbackThrows) ==
    /\ tab.call[c].sync = "pending"
    /\ tab' = [tab EXCEPT !.call[c].sync = IF ok THEN "ok" ELSE "failed",
                          !.call[c].callbacks = @ + (IF ok /\ callbackThrows THEN 2 ELSE 1)]
    /\ UNCHANGED backendVars

\* A fresh store: no brokerage user, no connection, no snapshot.
InitBroker ==
    /\ cronSecret = ConfiguredSecret
    /\ http = NoResponse
    /\ tab = InitTab
    /\ user = FALSE
    /\ conns = [c \in ConnIDs |-> NoConnRow]
    /\ daily = {}
    /\ holdings = {}
    /\ monthly = {}
    /\ today = StartDate

\* ------------------------------------------------------------------------
\* The batch entry points: position and locals of each
\* ------------------------------------------------------------------------
NoSnap == [item_id |-> "", row |-> [cursor |-> None]]

\* What SyncTransactionsForItem reads of the items it is given: the item's
\* id (and token) and its cursor.
SyncArguments(listed) == {[item_id |-> snap.item_id, row |-> [cursor |-> snap.row.cursor]] : snap \in listed}

\* No item checked: the item, the provider's answer, whether a POST was
\* sent, whether the store was reachable and whether it rejected the POST.
NoCheck == [item_id |-> "", outcome |-> [kind |-> "none"],
            posted |-> FALSE, storeOk |-> FALSE, rejected |-> FALSE]

\* No evaluation since the run began: which calls of the aggregator failed,
\* whether the store took every call so far, whether the evaluation is over.
NoEval == [kind |-> "none", storeOk |-> FALSE, done |-> FALSE]

\* The locals of a snapshot pass: its date, the total per account, the
\* holdings and the accounts whose rows are still to be written.
NoPassLocals == [date |-> StartDate, totals |-> <<>>, holdTodo |-> {}, monthTodo |-> {}]

\* No snapshot pass made: whether the pass fetched accounts, its date, the
\* total computed, the per-account totals, the holdings it tried to write,
\* the holdings and the accounts whose rows were written, whether a store
\* call of the pass failed, whether the store could not be reached, whether
\* it rejected a row whose key was stored with other values, the accounts
\* whose positions could not be fetched, whether the pass returned and with
\* an error.
NoPass == [fetched |-> FALSE, date |-> StartDate, total |-> 0, balances |-> <<>>,
           tried |-> {}, holdings |-> {}, months |-> {}, storeFailed |-> FALSE,
           unreachable |-> FALSE, rejected |-> FALSE,
           posFailed |-> {}, returned |-> FALSE, err |-> FALSE]

IdleProc ==
    [ pc      |-> "idle",
      hcTodo  |-> {},        \* health check: items of the list not yet checked
      hcLast  |-> NoCheck,   \* history: the iteration of the health check just made
      bhTodo  |-> <<>>,      \* brokerage check: the statuses not yet patched
      bhLast  |-> NoEval,    \* history: the brokerage health evaluation just made
      strikes |-> 0,         \* history: failed brokerage evaluations in a row, up to two
      queue   |-> {},        \* sync: pending items of the list not yet synced
      batch   |-> {},        \* history: the pending items as listed
      cur     |-> NoSnap,    \* sync: the item given to SyncTransactionsForItem
      cursor  |-> EmptyStr,  \* sync: the local cursor
      rules   |-> <<>>,      \* sync: the rules loaded
      result  |-> NoResult,  \* sync: the page fetched last
      pre     |-> [cursor |-> None, pending |-> FALSE],  \* history: the item's cursor and flag when the call began
      dirty   |-> FALSE,     \* history: the call began on rows a failed call had changed
      writes  |-> 0,         \* history: cursor writes made by the call
      pages   |-> 0,         \* history: pages applied by the call
      ret     |-> "none",    \* history: how the last call returned
      rejected |-> FALSE,    \* history: the store rejected the records of the call's page
      late    |-> FALSE,     \* history: a webhook named the item after the call's last fetch
      pass    |-> NoPassLocals, \* snapshots: the locals of the pass
      snapped |-> FALSE,     \* the run wrote the day's snapshot
      snapLast |-> NoPass,   \* history: what the run's snapshot pass computed and wrote
      rolled  |-> {},        \* history: the month-end dates of which a pass ended without error
      err     |-> FALSE ]    \* the batch's error

\* ------------------------------------------------------------------------
\* The other handlers that make more than one store call
\* ------------------------------------------------------------------------
Reqs == {"exchange", "removeItem", "syncConns", "removeConn", "connectURL"}

\* No request of the kind received: position, the locals of the handler,
\* and history (pre: the items of the institution and the accounts with a
\* row that the exchange found stored).
IdleReq == [pc |-> "idle", item_id |-> "", inst |-> "", old |-> "", accounts |-> {},
            listed |-> {}, conn_id |-> "", pre |-> [items |-> {}, accounts |-> {}]]

\* The response of a handler of Reqs: its status and what the request named.
Answered(handler, status, named) == [handler |-> handler, status |-> status, named |-> named]

\* No batch and no handler is between two of its calls.
Quiet == (\A p \in Procs : proc[p].pc = "idle") /\ (\A k \in Reqs : req[k].pc = "idle")

Init ==
    /\ items = [i \in Items |-> NoItemRow]
    /\ txns = {}
    /\ ruleRows = SeedRules
    /\ stream = [i \in Items |-> <<>>]
    /\ used = {}
    /\ linkTokens = {}
    /\ plaidAccounts = [a \in PlaidAccountIDs |-> ""]
    /\ committed = [i \in Items |-> [pos |-> 0, rows |-> {}]]
    /\ proc = [p \in Procs |-> IdleProc]
    /\ req = [k \in Reqs |-> IdleReq]
    /\ catIn = None
    /\ retention = IdleRetention
    /\ catOut = None
    /\ InitBroker

RowsOf(store, i) == {r \in store : r.plaid_transaction_id \in TxnOf(i)}

\* ------------------------------------------------------------------------
\* The provider: new data appears in an item's change-stream
\* ------------------------------------------------------------------------
ProviderNewData(i, page) ==
    /\ items[i].exists
    /\ Len(stream[i]) < MaxPages
    /\ stream' = [stream EXCEPT ![i] = Append(@, page)]
    /\ UNCHANGED <<items, txns, used, linkTokens, plaidAccounts, committed, proc, req, fixedVars, brokerVars>>

\* ------------------------------------------------------------------------
\* HandlePlaidWebhook
\* ------------------------------------------------------------------------
\* The call of p fetched its last page of the item and has not returned.
AfterLastFetch(p, itemID) ==
    /\ proc[p].pc \in {"syncUpsert", "syncDelete", "syncCommit"}
    /\ proc[p].cur.item_id = itemID
    /\ ~proc[p].result.has_more

\* History: the calls that a new-data webhook for the item comes too late for.
NoteLateWebhook(itemID) ==
    [p \in Procs |-> IF AfterLastFetch(p, itemID) THEN [proc[p] EXCEPT !.late = TRUE] ELSE proc[p]]

HandlePlaidWebhook(method, validJSON, code, itemID, ok) ==
    /\ LET write == method = "POST" /\ validJSON /\ code = "SYNC_UPDATES_AVAILABLE"
                    /\ itemID # "" /\ ok
       IN  /\ items' = IF write THEN SetItemNewTransactionsPending(items, itemID, TRUE) ELSE items
           /\ proc' = IF write THEN NoteLateWebhook(itemID) ELSE proc
    /\ http' = [handler |-> "webhook", method |-> method, validJSON |-> validJSON,
                code |-> code, item_id |-> itemID, storeOk |-> ok,
                seq |-> IF http.handler = "webhook" THEN 1 - http.seq ELSE 0,
                status |-> IF method # "POST" THEN 405
                           ELSE IF ~validJSON THEN 400
                           ELSE IF code # "SYNC_UPDATES_AVAILABLE" THEN 200
                           ELSE IF itemID = "" THEN 400
                           ELSE IF ~ok THEN 500
                           ELSE 200]
    /\ UNCHANGED <<txns, stream, used, linkTokens, plaidAccounts, committed, req, fixedVars, snapVars>>

\* ------------------------------------------------------------------------
\* handleCreatePlaidReconnectLinkToken
\* ------------------------------------------------------------------------
\* The item's row is read for its credential and the provider makes a link
\* token in update mode with it. The link that is completed with the token
\* is answered by the provider with this item's id, whatever has become of
\* the row by then.
handleCreatePlaidReconnectLinkToken(itemID, getOk, providerOk) ==
    /\ LET status == IF itemID = "" THEN 400
                     ELSE IF ~getOk THEN 500
                     ELSE IF GetPlaidItemByItemID(items, itemID) = "" THEN 404
                     ELSE IF ~providerOk THEN 502
                     ELSE 200
       IN  /\ linkTokens' = IF status = 200 THEN linkTokens \cup {itemID} ELSE linkTokens
           /\ http' = Answered("reconnect-link-token", status, itemID)
    /\ UNCHANGED <<items, txns, stream, used, plaidAccounts, committed, proc, req, fixedVars, snapVars>>

\* ------------------------------------------------------------------------
\* handleExchangePlaidPublicToken
\* ------------------------------------------------------------------------
\* The handler's two provider calls (the token exchange, the accounts); the
\* store is read and written by the steps that follow. The handler takes the
\* item id the provider answers: that of the link token in update mode the
\* link was made with, else an id the provider has not issued before.
handleExchangePlaidPublicToken(itemID, inst, providerOk) ==
    /\ req["exchange"].pc = "idle"
    /\ itemID \in linkTokens \cup (Items \ used)
    /\ req' = [req EXCEPT !["exchange"] =
                 IF ~providerOk THEN IdleReq
                 ELSE [IdleReq EXCEPT
                         !.pc = IF inst = "" THEN "exItem" ELSE "exLookup",
                         !.item_id = itemID, !.inst = inst,
                         !.accounts = PlaidAccountsOf(inst),
                         !.pre = [items |-> IF inst = "" THEN {} ELSE GetPlaidItemByInstitutionID(items, inst),
                                  accounts |-> {a \in PlaidAccountIDs : plaidAccounts[a] # ""}]]]
    /\ used' = IF providerOk THEN used \cup {itemID} ELSE used
    /\ linkTokens' = IF providerOk THEN linkTokens \ {itemID} ELSE linkTokens
    /\ http' = IF providerOk THEN http ELSE Answered("exchange", 502, itemID)
    /\ UNCHANGED <<items, txns, stream, plaidAccounts, committed, proc, fixedVars, snapVars>>

\* The handler's read of the institution's stored item, after the provider
\* has answered: an error of the read is dropped and the link goes on as a
\* first link; an item stored under another id is deleted next.
ExchangeGetPlaidItemByInstitutionID(lookupOk) ==
    /\ req["exchange"].pc = "exLookup"
    /\ LET r     == req["exchange"]
           found == IF lookupOk THEN GetPlaidItemByInstitutionID(items, r.inst) ELSE {}
       IN  \E existingItem \in (IF found = {} THEN {""} ELSE found) :
             req' = [req EXCEPT !["exchange"] =
                       [@ EXCEPT !.pc = IF existingItem # "" /\ existingItem # r.item_id
                                        THEN "exDelete" ELSE "exItem",
                                 !.old = existingItem]]
    /\ UNCHANGED <<items, txns, stream, used, linkTokens, plaidAccounts, committed, proc, http, fixedVars, snapVars>>

\* db.DeletePlaidItem of the institution's old item; its error is dropped.
ExchangeDeletePlaidItem(ok) ==
    /\ req["exchange"].pc = "exDelete"
    /\ items' = IF ok THEN DeletePlaidItem(items, req["exchange"].old) ELSE items
    /\ plaidAccounts' = IF ok THEN CascadePlaidAccounts(plaidAccounts, req["exchange"].old)
                        ELSE plaidAccounts
    /\ req' = [req EXCEPT !["exchange"].pc = "exItem"]
    /\ UNCHANGED <<txns, stream, used, linkTokens, committed, proc, fixedVars, brokerVars>>

\* db.UpsertPlaidItem of the new item.
ExchangeUpsertPlaidItem(ok) ==
    /\ req["exchange"].pc = "exItem"
    /\ LET r == req["exchange"]
           payload == [status |-> "OK", cursor |-> None, pending |-> FALSE,
                       inst |-> IF r.inst # "" THEN Some(r.inst) ELSE None]
           res == UpsertPlaidItem(items, r.item_id, payload)
       IN  IF ok /\ ~res.err
           THEN /\ items' = res.rows
                /\ req' = [req EXCEPT !["exchange"].pc = "exAccounts"]
                /\ UNCHANGED http
           ELSE /\ req' = [req EXCEPT !["exchange"] = IdleReq]
                /\ http' = Answered("exchange", 500, r.item_id)
                /\ UNCHANGED items
    /\ UNCHANGED <<txns, stream, used, linkTokens, plaidAccounts, committed, proc, fixedVars, snapVars>>

\* db.UpsertPlaidAccounts of the accounts the provider reported.
ExchangeUpsertPlaidAccounts(ok) ==
    /\ req["exchange"].pc = "exAccounts"
    /\ LET r == req["exchange"]
           res == UpsertPlaidAccounts(plaidAccounts, items, r.item_id, r.accounts)
       IN  IF r.accounts = {} \/ (ok /\ ~res.err)
           THEN /\ plaidAccounts' = res.rows
                /\ http' = Answered("exchange", 200, r.item_id)
           ELSE /\ http' = Answered("exchange", 500, r.item_id)
                /\ UNCHANGED plaidAccounts
    /\ req' = [req EXCEPT !["exchange"] = IdleReq]
    /\ UNCHANGED <<items, txns, stream, used, linkTokens, committed, proc, fixedVars, snapVars>>

\* ------------------------------------------------------------------------
\* handleRemovePlaidItem
\* ------------------------------------------------------------------------
\* The handler up to its first write: the item's row is read and the
\* provider is told to remove the item. The provider completes no link for
\* an item it has removed.
handleRemovePlaidItem(itemID, getOk, removeOk) ==
    /\ req["removeItem"].pc = "idle"
    /\ LET status == IF ~getOk THEN 500
                     ELSE IF GetPlaidItemByItemID(items, itemID) = "" THEN 404
                     ELSE IF ~removeOk THEN 502
                     ELSE 0
       IN  IF status # 0
           THEN /\ http' = Answered("removeItem", status, itemID)
                /\ UNCHANGED <<req, linkTokens>>
           ELSE /\ req' = [req EXCEPT !["removeItem"] =
                                       [IdleReq EXCEPT !.pc = "rmAccounts", !.item_id = itemID]]
                /\ linkTokens' = linkTokens \ {itemID}
                /\ UNCHANGED http
    /\ UNCHANGED <<items, txns, stream, used, plaidAccounts, committed, proc, fixedVars, snapVars>>

\* db.DeletePlaidAccountsByItemID
RemoveDeletePlaidAccounts(ok) ==
    /\ req["removeItem"].pc = "rmAccounts"
    /\ IF ok
       THEN /\ plaidAccounts' = DeletePlaidAccountsByItemID(plaidAccounts, req["removeItem"].item_id)
            /\ req' = [req EXCEPT !["removeItem"].pc = "rmItem"]
            /\ UNCHANGED http
       ELSE /\ req' = [req EXCEPT !["removeItem"] = IdleReq]
            /\ http' = Answered("removeItem", 500, req["removeItem"].item_id)
            /\ UNCHANGED plaidAccounts
    /\ UNCHANGED <<items, txns, stream, used, linkTokens, committed, proc, fixedVars, snapVars>>

\* db.DeletePlaidItem
RemoveDeletePlaidItem(ok) ==
    /\ req["removeItem"].pc = "rmItem"
    /\ IF ok
       THEN /\ items' = DeletePlaidItem(items, req["removeItem"].item_id)
            /\ plaidAccounts' = CascadePlaidAccounts(plaidAccounts, req["removeItem"].item_id)
            /\ http' = Answered("removeItem", 204, req["removeItem"].item_id)
       ELSE /\ http' = Answered("removeItem", 500, req["removeItem"].item_id)
            /\ UNCHANGED <<items, plaidAccounts>>
    /\ req' = [req EXCEPT !["removeItem"] = IdleReq]
    /\ UNCHANGED <<txns, stream, used, linkTokens, committed, proc, fixedVars, snapVars>>

\* ------------------------------------------------------------------------
\* checkAndUpdatePlaidItemStatuses
\* ------------------------------------------------------------------------
\* error_code values of a failed provider call
ErrorCodes ==
    { "ITEM_LOGIN_REQUIRED", "INVALID_ACCESS_TOKEN", "ACCESS_TOKEN_EXPIRED",
      "ACCESS_TOKEN_INVALID", "ITEM_ERROR",
      "RATE_LIMIT_EXCEEDED", "INSTITUTION_DOWN", "SOME_NEW_CODE" }

\* item.status values of a successful /item/get ("" when the field is absent)
ItemGetStatuses == {"OK", ""}

\* What GetItem can come back with.
GetItemOutcomes ==
    {[kind |-> "ok", status |-> st] : st \in ItemGetStatuses}
    \cup {[kind |-> "plaid_error", code |-> c] : c \in ErrorCodes}
    \cup {[kind |-> "http_error"], [kind |-> "network_error"]}

isPlaidAuthErrorAnyCode(errorCode) == TRUE

isPlaidAuthError(errorCode) ==
    errorCode \in { "ITEM_LOGIN_REQUIRED", "INVALID_ACCESS_TOKEN",
                    "ACCESS_TOKEN_EXPIRED", "ACCESS_TOKEN_INVALID" }

\* errors.As(err, &plaidErr) && plaidErr.IsAuthError, as postJSON builds err
IsAuthError(outcome) ==
    outcome.kind = "plaid_error" /\ isPlaidAuthError(outcome.code)

ItemPayload(row) ==
    [status |-> row.status, cursor |-> row.cursor, pending |-> row.pending, inst |-> row.inst]

\* handleDailySync begins: it compares the X-Cron-Secret header (the query
\* string is not read) with CRON_SECRET, answers 401 on a mismatch, and
\* else checks the bank items first.
NightlyStart(headerSecret, querySecret) ==
    /\ proc["nightly"].pc = "idle"
    /\ IF headerSecret # cronSecret
       THEN /\ http' = [handler |-> "daily-sync", header |-> headerSecret, query |-> querySecret,
                        status |-> 401]
            /\ UNCHANGED proc
       ELSE /\ http' = NoResponse
            /\ proc' = [proc EXCEPT !["nightly"].pc = "hcList"]
    /\ UNCHANGED <<items, txns, stream, used, linkTokens, plaidAccounts, committed, req, fixedVars, snapVars>>

\* db.ListPlaidItems at the top of the check; its failure ends the check.
HealthList(ok) ==
    /\ proc["nightly"].pc = "hcList"
    /\ proc' = [proc EXCEPT !["nightly"].pc = IF ok THEN "hcLoop" ELSE "bhCheck",
                            !["nightly"].hcTodo = IF ok THEN ListPlaidItems(items) ELSE {}]
    /\ UNCHANGED <<items, txns, stream, used, linkTokens, plaidAccounts, committed, req, fixedVars, brokerVars>>

\* One iteration of the loop over the listed items: GetItem, and on an
\* authentication error or a changed status db.UpsertPlaidItem of the item
\* as listed with the new status; the error of the store call is dropped.
HealthCheckItem(snap, outcome, upsertOk) ==
    /\ proc["nightly"].pc = "hcLoop"
    /\ snap \in proc["nightly"].hcTodo
    /\ LET write == IF outcome.kind = "ok"
                    THEN snap.row.status # outcome.status
                    ELSE IsAuthError(outcome)
           status == IF outcome.kind = "ok" THEN outcome.status ELSE ItemLoginRequired
           payload == ItemPayload([snap.row EXCEPT !.status = status])
           res == UpsertPlaidItem(items, snap.item_id, payload)
       IN  /\ items' = IF write /\ upsertOk THEN res.rows ELSE items
           /\ proc' = [proc EXCEPT
                         !["nightly"].hcTodo = @ \ {snap},
                         !["nightly"].hcLast = [item_id |-> snap.item_id, outcome |-> outcome,
                                                posted |-> write, storeOk |-> upsertOk,
                                                rejected |-> write /\ upsertOk /\ res.err]]
    /\ UNCHANGED <<txns, stream, used, linkTokens, plaidAccounts, committed, req, fixedVars, brokerVars>>

\* The loop is over; the run goes on to the brokerage connections.
HealthDone ==
    /\ proc["nightly"].pc = "hcLoop"
    /\ proc["nightly"].hcTodo = {}
    /\ proc' = [proc EXCEPT !["nightly"].pc = "bhCheck", !["nightly"].hcLast = NoCheck]
    /\ UNCHANGED <<items, txns, stream, used, linkTokens, plaidAccounts, committed, req, fixedVars, brokerVars>>

\* ------------------------------------------------------------------------
\* Brokerage connections: connect-url, sync-connections, removal, the
\* health check
\* ------------------------------------------------------------------------
\* handleSnaptradeConnectURL up to its write: the user row is read and,
\* when there is none, the owner is registered with the aggregator.
handleSnaptradeConnectURL(userRead, registerOk, portalOk) ==
    /\ req["connectURL"].pc = "idle"
    /\ LET u == GetSnaptradeUser(userRead)
           status == IF u = "err" THEN 500
                     ELSE IF u = "ok" THEN (IF portalOk THEN 200 ELSE 502)
                     ELSE IF ~registerOk THEN 502
                     ELSE 0
       IN  IF status # 0
           THEN /\ http' = Answered("connectURL", status, "")
                /\ UNCHANGED req
           ELSE /\ req' = [req EXCEPT !["connectURL"] = [IdleReq EXCEPT !.pc = "cuCreate"]]
                /\ UNCHANGED http
    /\ UNCHANGED <<items, txns, stream, used, linkTokens, plaidAccounts, committed, proc, fixedVars, snapVars>>

\* db.CreateSnaptradeUser (user_id UNIQUE), then the portal URL is generated.
ConnectURLCreateSnaptradeUser(ok, portalOk) ==
    /\ req["connectURL"].pc = "cuCreate"
    /\ IF ok /\ ~user
       THEN /\ user' = TRUE
            /\ http' = Answered("connectURL", IF portalOk THEN 200 ELSE 502, "")
       ELSE /\ http' = Answered("connectURL", 500, "")
            /\ UNCHANGED user
    /\ req' = [req EXCEPT !["connectURL"] = IdleReq]
    /\ UNCHANGED <<items, txns, stream, used, linkTokens, plaidAccounts, committed, proc, fixedVars,
                   conns, daily, holdings, monthly, today, cronSecret>>

\* handleSnaptradeSyncConnections up to its first write: the user row is
\* read and the connections are listed at the aggregator.
handleSnaptradeSyncConnections(userRead, listOk, listed) ==
    /\ req["syncConns"].pc = "idle"
    /\ LET u == GetSnaptradeUser(userRead)
           status == IF u = "err" THEN 500
                     ELSE IF u = "none" THEN 200
                     ELSE IF ~listOk THEN 502
                     ELSE 0
       IN  IF status # 0
           THEN /\ http' = Answered("syncConns", status, {})
                /\ UNCHANGED req
           ELSE /\ req' = [req EXCEPT !["syncConns"] =
                                       [IdleReq EXCEPT !.pc = "scUpsert", !.listed = listed]]
                /\ UNCHANGED http
    /\ UNCHANGED <<items, txns, stream, used, linkTokens, plaidAccounts, committed, proc, fixedVars, snapVars>>

\* The first request of db.UpsertSnaptradeConnections: the DELETE of every
\* row, whose status is not looked at, or the POST of the listed connections.
\* The store carries the request out ("ok"), answers with an error status
\* ("status") or cannot be reached ("transport").
SyncConnectionsUpsert(answer) ==
    /\ req["syncConns"].pc = "scUpsert"
    /\ LET listed == req["syncConns"].listed
           res == UpsertSnaptradeConnections(conns, [c \in listed |-> "OK"])
       IN  IF listed = {}
           THEN /\ conns' = IF answer = "ok" THEN res.rows ELSE conns
                /\ req' = [req EXCEPT !["syncConns"] = IdleReq]
                /\ http' = Answered("syncConns", IF answer = "transport" THEN 500 ELSE 200, listed)
           ELSE IF answer = "ok" /\ ~res.err
           THEN /\ conns' = res.rows
                /\ req' = [req EXCEPT !["syncConns"].pc = "scDelete"]
                /\ UNCHANGED http
           ELSE /\ req' = [req EXCEPT !["syncConns"] = IdleReq]
                /\ http' = Answered("syncConns", 500, listed)
                /\ UNCHANGED conns
    /\ UNCHANGED <<items, txns, stream, used, linkTokens, plaidAccounts, committed, proc, fixedVars,
                   user, daily, holdings, monthly, today, cronSecret>>

\* deleteSnaptradeConnectionsNotIn, the second request.
SyncConnectionsDeleteNotIn(ok) ==
    /\ req["syncConns"].pc = "scDelete"
    /\ IF ok
       THEN /\ conns' = deleteSnaptradeConnectionsNotIn(conns, req["syncConns"].listed)
            /\ http' = Answered("syncConns", 200, req["syncConns"].listed)
       ELSE /\ http' = Answered("syncConns", 500, req["syncConns"].listed)
            /\ UNCHANGED conns
    /\ req' = [req EXCEPT !["syncConns"] = IdleReq]
    /\ UNCHANGED <<items, txns, stream, used, linkTokens, plaidAccounts, committed, proc, fixedVars,
                   user, daily, holdings, monthly, today, cronSecret>>

\* handleRemoveSnaptradeConnection up to its write: the user row is read
\* and, when there is one, the aggregator is told to remove the connection.
handleRemoveSnaptradeConnection(connID, userRead, removeOk) ==
    /\ req["removeConn"].pc = "idle"
    /\ LET u == GetSnaptradeUser(userRead)
           status == IF u = "err" THEN 500
                     ELSE IF u = "ok" /\ ~removeOk THEN 502
                     ELSE 0
       IN  IF status # 0
           THEN /\ http' = Answered("removeConn", status, connID)
                /\ UNCHANGED req
           ELSE /\ req' = [req EXCEPT !["removeConn"] =
                                       [IdleReq EXCEPT !.pc = "rcDelete", !.conn_id = connID]]
                /\ UNCHANGED http
    /\ UNCHANGED <<items, txns, stream, used, linkTokens, plaidAccounts, committed, proc, fixedVars, snapVars>>

\* db.DeleteSnaptradeConnection
RemoveDeleteSnaptradeConnection(ok) ==
    /\ req["removeConn"].pc = "rcDelete"
    /\ IF ok
       THEN /\ conns' = DeleteSnaptradeConnection(conns, req["removeConn"].conn_id)
            /\ http' = Answered("removeConn", 204, req["removeConn"].conn_id)
       ELSE /\ http' = Answered("removeConn", 500, req["removeConn"].conn_id)
            /\ UNCHANGED conns
    /\ req' = [req EXCEPT !["removeConn"] = IdleReq]
    /\ UNCHANGED <<items, txns, stream, used, linkTokens, plaidAccounts, committed, proc, fixedVars,
                   user, daily, holdings, monthly, today, cronSecret>>

\* The switch of the 2-strike system.
newStatus(currentStatus) ==
    IF currentStatus = "OK" THEN "ACCOUNT_FETCH_ERROR"
    ELSE IF currentStatus = "ACCOUNT_FETCH_ERROR" THEN "CONNECTION_ERROR"
    ELSE currentStatus

\* checkAndUpdateSnaptradeConnectionStatuses, the second step of the nightly
\* run (its error is dropped by the run), up to its first write: the user
\* row and the stored connections are read, the aggregator is asked for the
\* connections and the accounts, and the new statuses are computed.
checkAndUpdateSnaptradeConnectionStatuses(userRead, readOk, listOk, listed, accountsOk) ==
    /\ proc["nightly"].pc = "bhCheck"
    /\ LET existingConns == IF readOk THEN ListSnaptradeConnections(conns) ELSE {}
           existingStatus(c) == IF c \in existingConns THEN conns[c].status ELSE ""
           dbConns == IF ~listOk
                      THEN [c \in existingConns |-> newStatus(conns[c].status)]
                      ELSE IF ~accountsOk
                      THEN [c \in listed |-> newStatus(existingStatus(c))]
                      ELSE [c \in listed |-> "OK"]
           kind == IF ~listOk THEN "list_failed" ELSE IF ~accountsOk THEN "accounts_failed" ELSE "ok"
       IN  IF GetSnaptradeUser(userRead) # "ok"
           THEN proc' = [proc EXCEPT !["nightly"].pc = "syncList",
                                     !["nightly"].bhLast = [NoEval EXCEPT !.kind = "skipped",
                                                                          !.done = TRUE]]
           ELSE proc' = [proc EXCEPT
                           !["nightly"].pc = IF DOMAIN dbConns = {} THEN "syncList" ELSE "bhPatch",
                           !["nightly"].bhTodo = dbConns,
                           !["nightly"].bhLast = [kind |-> kind, storeOk |-> readOk,
                                                  done |-> DOMAIN dbConns = {}],
                           !["nightly"].strikes = IF kind = "ok" THEN 0
                                                  ELSE IF @ = 0 THEN 1 ELSE 2]
    /\ UNCHANGED <<items, txns, stream, used, linkTokens, plaidAccounts, committed, req, fixedVars, brokerVars>>

\* One request of db.UpdateSnaptradeConnectionStatuses: the PATCH of the
\* next connection; the loop stops at the first request that fails.
PatchSnaptradeConnection(c, ok) ==
    /\ proc["nightly"].pc = "bhPatch"
    /\ c \in DOMAIN proc["nightly"].bhTodo
    /\ LET todo == proc["nightly"].bhTodo
           rest == [d \in DOMAIN todo \ {c} |-> todo[d]]
       IN  IF ok
           THEN /\ conns' = PatchSnaptradeConnectionStatus(conns, c, todo[c])
                /\ proc' = [proc EXCEPT
                              !["nightly"].pc = IF DOMAIN rest = {} THEN "syncList" ELSE "bhPatch",
                              !["nightly"].bhTodo = rest,
                              !["nightly"].bhLast.done = DOMAIN rest = {}]
           ELSE /\ proc' = [proc EXCEPT !["nightly"].pc = "syncList",
                                        !["nightly"].bhTodo = <<>>,
                                        !["nightly"].bhLast.storeOk = FALSE,
                                        !["nightly"].bhLast.done = TRUE]
                /\ UNCHANGED conns
    /\ UNCHANGED <<items, txns, stream, used, linkTokens, plaidAccounts, committed, req, fixedVars,
                   user, daily, holdings, monthly, today, cronSecret, http>>

\* ------------------------------------------------------------------------
\* Portfolio snapshots: writeSnaptradeSnapshotsForToday
\* ------------------------------------------------------------------------
\* Account balances (thousandths) and positions the brokerage reports.
Balances == {1000, 2504}
PositionValues == {[quantity |-> 1, value_cents |-> 100], [quantity |-> 2, value_cents |-> 250]}

\* The first account trades; the second one holds a fixed amount of cash.
BalancesOf(a) == IF a = "a1" THEN Balances ELSE {1000}

\* ListAccounts answers: a balance for each account of some set of accounts.
AccountLists ==
    UNION {{f \in [A -> Balances] : \A a \in A : f[a] \in BalancesOf(a)} : A \in SUBSET Accounts}

\* ListAccountPositions answers: an error, or a position per symbol held.
PositionLists ==
    {[ok |-> FALSE, list |-> <<>>]} \cup
    {[ok |-> TRUE, list |-> l] : l \in UNION {[S -> PositionValues] : S \in SUBSET Symbols}}

PositionListsOf(a) ==
    IF a = "a1" THEN PositionLists ELSE {pl \in PositionLists : DOMAIN pl.list = {}}

\* The (account, symbol) pairs for which an upsert of a holding is attempted.
HeldPairs(positions) ==
    {h \in (DOMAIN positions) \X Symbols : positions[h[1]].ok /\ h[2] \in DOMAIN positions[h[1]].list}

RECURSIVE SumCents(_, _)
SumCents(accounts, A) ==
    IF A = {} THEN 0
    ELSE LET a == CHOOSE x \in A : TRUE
         IN  AmountCents(accounts[a]) + SumCents(accounts, A \ {a})

\* The same pass leaving out the accounts whose positions it could not fetch.
writeSnapshotsLeavingOutFailedAccounts(userRead, accountsOk, accounts, positions) ==
    /\ proc["nightly"].pc = "snapshots"
    /\ LET A == {a \in DOMAIN accounts : positions[a].ok}
           u == GetSnaptradeUser(userRead)
           fetched == u = "ok" /\ accountsOk /\ A # {}
           newHoldings == {[date |-> today, account_id |-> h[1], symbol |-> h[2],
                            quantity |-> positions[h[1]].list[h[2]].quantity,
                            value_cents |-> positions[h[1]].list[h[2]].value_cents] :
                              h \in HeldPairs(positions)}
           failed == u = "err" \/ (u = "ok" /\ ~accountsOk)
       IN  proc' = [proc EXCEPT
                      !["nightly"].pc = IF ~fetched THEN "done"
                                        ELSE IF newHoldings = {} THEN "snapDaily" ELSE "snapHolding",
                      !["nightly"].err = failed,
                      !["nightly"].pass =
                          IF fetched
                          THEN [date |-> today,
                                totals |-> [a \in A |-> AmountCents(accounts[a])],
                                holdTodo |-> newHoldings, monthTodo |-> A]
                          ELSE NoPassLocals,
                      !["nightly"].snapLast =
                          IF fetched
                          THEN [NoPass EXCEPT !.fetched = TRUE, !.date = today,
                                              !.total = SumCents(accounts, A),
                                              !.balances = [a \in A |-> AmountCents(accounts[a])],
                                              !.posFailed = {a \in DOMAIN accounts : ~positions[a].ok}]
                          ELSE [NoPass EXCEPT !.storeFailed = u = "err", !.returned = TRUE,
                                              !.err = failed]]
    /\ UNCHANGED <<items, txns, stream, used, linkTokens, plaidAccounts, committed, req, fixedVars, brokerVars>>

\* writeSnaptradeSnapshotsForToday, the last step of the nightly run, up to
\* its first write: the user row is read, the accounts and the positions of
\* each are fetched, the date is taken and the totals are computed.
writeSnaptradeSnapshotsForToday(userRead, accountsOk, accounts, positions) ==
    /\ proc["nightly"].pc = "snapshots"
    /\ LET A == DOMAIN accounts
           u == GetSnaptradeUser(userRead)
           fetched == u = "ok" /\ accountsOk /\ A # {}
           newHoldings == {[date |-> today, account_id |-> h[1], symbol |-> h[2],
                            quantity |-> positions[h[1]].list[h[2]].quantity,
                            value_cents |-> positions[h[1]].list[h[2]].value_cents] :
                              h \in HeldPairs(positions)}
           failed == u = "err" \/ (u = "ok" /\ ~accountsOk)
       IN  proc' = [proc EXCEPT
                      !["nightly"].pc = IF ~fetched THEN "done"
                                        ELSE IF newHoldings = {} THEN "snapDaily" ELSE "snapHolding",
                      !["nightly"].err = failed,
                      !["nightly"].pass =
                          IF fetched
                          THEN [date |-> today,
                                totals |-> [a \in A |-> AmountCents(accounts[a])],
                                holdTodo |-> newHoldings, monthTodo |-> A]
                          ELSE NoPassLocals,
                      !["nightly"].snapLast =
                          IF fetched
                          THEN [NoPass EXCEPT !.fetched = TRUE, !.date = today,
                                              !.total = SumCents(accounts, A),
                                              !.balances = [a \in A |-> AmountCents(accounts[a])],
                                              !.posFailed = {a \in DOMAIN accounts : ~positions[a].ok}]
                          ELSE [NoPass EXCEPT !.storeFailed = u = "err", !.returned = TRUE,
                                              !.err = failed]]
    /\ UNCHANGED <<items, txns, stream, used, linkTokens, plaidAccounts, committed, req, fixedVars, brokerVars>>

\* db.UpsertDailyHolding of the next position; its error is dropped.
SnapshotUpsertDailyHolding(holding, ok) ==
    /\ proc["nightly"].pc = "snapHolding"
    /\ holding \in proc["nightly"].pass.holdTodo
    /\ LET res == UpsertDailyHolding(holdings, holding)
           rest == proc["nightly"].pass.holdTodo \ {holding}
       IN  /\ holdings' = IF ok THEN res.rows ELSE holdings
           /\ proc' = [proc EXCEPT
                         !["nightly"].pc = IF rest = {} THEN "snapDaily" ELSE "snapHolding",
                         !["nightly"].pass.holdTodo = rest,
                         !["nightly"].snapLast.tried = @ \cup {holding},
                         !["nightly"].snapLast.holdings = IF ok /\ ~res.err THEN @ \cup {holding} ELSE @,
                         !["nightly"].snapLast.storeFailed = @ \/ ~ok \/ res.err,
                         !["nightly"].snapLast.unreachable = @ \/ ~ok,
                         !["nightly"].snapLast.rejected = @ \/ (ok /\ res.err /\ holding \notin holdings)]
    /\ UNCHANGED <<items, txns, stream, used, linkTokens, plaidAccounts, committed, req, fixedVars,
                   user, conns, daily, monthly, today, cronSecret, http>>

\* db.UpsertDailySnapshot of the total; then maybeWriteMonthlySnapshots
\* looks at the date.
SnapshotUpsertDailySnapshot(ok) ==
    /\ proc["nightly"].pc = "snapDaily"
    /\ LET pass == proc["nightly"].pass
           snapshot == [date |-> pass.date, portfolio_value_cents |-> proc["nightly"].snapLast.total]
           res == UpsertDailySnapshot(daily, snapshot)
       IN  IF ok /\ ~res.err
           THEN /\ daily' = res.rows
                /\ proc' = [proc EXCEPT
                              !["nightly"].pc = IF IsLastDayOfMonth(pass.date) THEN "snapMonthly"
                                                ELSE "done",
                              !["nightly"].snapped = TRUE,
                              !["nightly"].snapLast.returned = ~IsLastDayOfMonth(pass.date)]
           ELSE /\ proc' = [proc EXCEPT
                              !["nightly"].pc = "done", !["nightly"].err = TRUE,
                              !["nightly"].snapLast.storeFailed = TRUE,
                              !["nightly"].snapLast.unreachable = @ \/ ~ok,
                              !["nightly"].snapLast.rejected = @ \/ (ok /\ snapshot \notin daily),
                              !["nightly"].snapLast.returned = TRUE,
                              !["nightly"].snapLast.err = TRUE]
                /\ UNCHANGED daily
    /\ UNCHANGED <<items, txns, stream, used, linkTokens, plaidAccounts, committed, req, fixedVars,
                   user, conns, holdings, monthly, today, cronSecret, http>>

\* db.UpsertMonthlySnapshot of the next account of the map; the loop
\* returns at the first request that fails.
SnapshotUpsertMonthlySnapshot(a, ok) ==
    /\ proc["nightly"].pc = "snapMonthly"
    /\ a \in proc["nightly"].pass.monthTodo
    /\ LET pass == proc["nightly"].pass
           snapshot == [month |-> [pass.date EXCEPT !.d = 1], account_id |-> a,
                        portfolio_value_cents |-> pass.totals[a]]
           res == UpsertMonthlySnapshot(monthly, snapshot)
           rest == pass.monthTodo \ {a}
       IN  IF ok /\ ~res.err
           THEN /\ monthly' = res.rows
                /\ proc' = [proc EXCEPT
                              !["nightly"].pc = IF rest = {} THEN "done" ELSE "snapMonthly",
                              !["nightly"].pass.monthTodo = rest,
                              !["nightly"].snapLast.months = @ \cup {a},
                              !["nightly"].snapLast.returned = rest = {},
                              !["nightly"].rolled = IF rest = {} THEN @ \cup {pass.date} ELSE @]
           ELSE /\ proc' = [proc EXCEPT
                              !["nightly"].pc = "done", !["nightly"].err = TRUE,
                              !["nightly"].snapLast.storeFailed = TRUE,
                              !["nightly"].snapLast.unreachable = @ \/ ~ok,
                              !["nightly"].snapLast.rejected = @ \/ (ok /\ snapshot \notin monthly),
                              !["nightly"].snapLast.returned = TRUE,
                              !["nightly"].snapLast.err = TRUE]
                /\ UNCHANGED monthly
    /\ UNCHANGED <<items, txns, stream, used, linkTokens, plaidAccounts, committed, req, fixedVars,
                   user, conns, daily, holdings, today, cronSecret, http>>

\* The clock passes midnight (UTC).
NextDay ==
    /\ today' = AddDay(today)
    /\ UNCHANGED <<items, txns, stream, used, linkTokens, plaidAccounts, committed, proc, req, fixedVars,
                   user, conns, daily, holdings, monthly, cronSecret, http>>

\* The clock moves to the first day of the next month, no request having
\* come since the last step.
NextMonth ==
    /\ today' = IF today.m < 12 THEN [y |-> today.y, m |-> today.m + 1, d |-> 1]
                ELSE [y |-> today.y + 1, m |-> 1, d |-> 1]
    /\ UNCHANGED <<items, txns, stream, used, linkTokens, plaidAccounts, committed, proc, req, fixedVars,
                   user, conns, daily, holdings, monthly, cronSecret, http>>

\* ------------------------------------------------------------------------
\* Retention of the daily rows, as section 4.4 of the specification orders
\* it (the repository has no code of it): export the rows of a month older
\* than the previous calendar month, confirm that the month has its monthly
\* rows, delete the daily rows of the month
\* ------------------------------------------------------------------------
\* The pass takes a month that has daily rows and is older than the current
\* and the previous calendar month, and exports its rows; when the export
\* fails the pass ends.
RetentionStart(month, exportOk) ==
    /\ retention.pc = "idle"
    /\ month \in {[r.date EXCEPT !.d = 1] : r \in daily} \cup {[h.date EXCEPT !.d = 1] : h \in holdings}
    /\ month.y * 12 + month.m < today.y * 12 + today.m - 1
    /\ retention' = IF exportOk
                    THEN [pc |-> "confirm", month |-> month,
                          tables |-> {"daily_holdings", "daily_snapshots"}, deleted |-> {}]
                    ELSE [IdleRetention EXCEPT !.month = month]
    /\ UNCHANGED <<items, txns, ruleRows, stream, used, linkTokens, plaidAccounts, committed, proc, req, catIn,
                   catOut, tab, brokerVars>>

\* A pass that goes on to delete without looking at the monthly rows.
RetentionDeleteUnconfirmed(a, ok) ==
    /\ retention.pc = "confirm"
    /\ retention' = [retention EXCEPT !.pc = "delete"]
    /\ UNCHANGED <<items, txns, ruleRows, stream, used, linkTokens, plaidAccounts, committed, proc, req, catIn,
                   catOut, tab, brokerVars>>

\* Upsert/confirm the monthly rows of the month: when the month has no
\* monthly row, one is written from the month's last daily snapshot (for
\* which account the specification leaves open); the pass goes on to delete
\* only when the store answered and a monthly row of the month exists.
RetentionConfirmMonthly(a, ok) ==
    /\ retention.pc = "confirm"
    /\ LET month == retention.month
           days == {r \in daily : [r.date EXCEPT !.d = 1] = month}
           last == CHOOSE r \in days : \A q \in days : q.date.d <= r.date.d
           rows == IF days = {} \/ \E mr \in monthly : mr.month = month
                   THEN monthly
                   ELSE monthly \cup {[month |-> month, account_id |-> a,
                                       portfolio_value_cents |-> last.portfolio_value_cents]}
       IN  /\ monthly' = IF ok THEN rows ELSE monthly
           /\ retention' = IF ok /\ \E mr \in rows : mr.month = month
                           THEN [retention EXCEPT !.pc = "delete"]
                           ELSE [IdleRetention EXCEPT !.month = month]
    /\ UNCHANGED <<items, txns, ruleRows, stream, used, linkTokens, plaidAccounts, committed, proc, req, catIn,
                   catOut, tab, user, conns, daily, holdings, today, cronSecret, http>>

\* Delete the rows of the month from one of the two daily tables; when the
\* store fails the pass ends.
RetentionDelete(table, ok) ==
    /\ retention.pc = "delete"
    /\ table \in retention.tables
    /\ LET month == retention.month
           rest == retention.tables \ {table}
           gone == IF table = "daily_snapshots"
                   THEN {r.date : r \in {x \in daily : [x.date EXCEPT !.d = 1] = month}}
                   ELSE {h.date : h \in {x \in holdings : [x.date EXCEPT !.d = 1] = month}}
       IN  IF ok
           THEN /\ daily' = IF table = "daily_snapshots"
                            THEN {r \in daily : [r.date EXCEPT !.d = 1] # month} ELSE daily
                /\ holdings' = IF table = "daily_holdings"
                               THEN {h \in holdings : [h.date EXCEPT !.d = 1] # month} ELSE holdings
                /\ retention' = [retention EXCEPT !.pc = IF rest = {} THEN "idle" ELSE "delete",
                                                  !.tables = rest,
                                                  !.deleted = @ \cup gone]
           ELSE /\ retention' = [retention EXCEPT !.pc = "idle", !.tables = {}]
                /\ UNCHANGED <<daily, holdings>>
    /\ UNCHANGED <<items, txns, ruleRows, stream, used, linkTokens, plaidAccounts, committed, proc, req, catIn,
                   catOut, tab, user, conns, monthly, today, cronSecret, http>>

\* ------------------------------------------------------------------------
\* handleSyncTransactions / runPlaidSafetySync and SyncTransactionsForItem
\* ------------------------------------------------------------------------
\* POST /api/transactions/sync begins.
ManualStart ==
    /\ proc["manual"].pc = "idle"
    /\ proc' = [proc EXCEPT !["manual"].pc = "syncList"]
    /\ http' = NoResponse
    /\ UNCHANGED <<items, txns, stream, used, linkTokens, plaidAccounts, committed, req, fixedVars, snapVars>>

\* db.ListPlaidItemsWithPendingTransactions; its failure is the batch's error.
SyncList(p, ok) ==
    /\ proc[p].pc = "syncList"
    /\ proc' = [proc EXCEPT ![p].pc = IF ok THEN "syncNext" ELSE "done",
                            ![p].err = ~ok,
                            ![p].bhLast = NoEval,
                            ![p].queue = IF ok THEN SyncArguments(ListPlaidItemsWithPendingTransactions(items))
                                         ELSE {},
                            ![p].batch = IF ok THEN SyncArguments(ListPlaidItemsWithPendingTransactions(items))
                                         ELSE {}]
    /\ UNCHANGED <<items, txns, stream, used, linkTokens, plaidAccounts, committed, req, fixedVars, brokerVars>>

\* The loop over the listed items calls SyncTransactionsForItem for the next
\* one; the call begins by taking the cursor of the item it was given.
SyncBegin(p, snap) ==
    /\ proc[p].pc = "syncNext"
    /\ snap \in proc[p].queue
    /\ proc' = [proc EXCEPT
                  ![p].pc = "syncLoad",
                  ![p].queue = @ \ {snap},
                  ![p].cur = snap,
                  ![p].cursor = IF IsSome(snap.row.cursor) THEN Get(snap.row.cursor) ELSE EmptyStr,
                  ![p].result = NoResult,
                  ![p].pre = [cursor |-> items[snap.item_id].cursor,
                              pending |-> items[snap.item_id].pending],
                  ![p].dirty = RowsOf(txns, snap.item_id) # committed[snap.item_id].rows,
                  ![p].writes = 0,
                  ![p].pages = 0,
                  ![p].ret = "none",
                  ![p].rejected = FALSE,
                  ![p].late = FALSE]
    /\ UNCHANGED <<items, txns, stream, used, linkTokens, plaidAccounts, committed, req, fixedVars, brokerVars>>

\* Every listed item was synced; the nightly run goes on to the snapshots.
SyncAllDone(p) ==
    /\ proc[p].pc = "syncNext"
    /\ proc[p].queue = {}
    /\ proc' = [proc EXCEPT ![p].pc = IF p = "nightly" THEN "snapshots" ELSE "done"]
    /\ UNCHANGED <<items, txns, stream, used, linkTokens, plaidAccounts, committed, req, fixedVars, brokerVars>>

\* A loop that notes the error and goes on to the remaining items.
SyncFailedContinuing(p) ==
    [proc EXCEPT ![p].pc = "syncNext", ![p].ret = "err", ![p].err = TRUE,
                 ![p].cursor = EmptyStr, ![p].rules = <<>>, ![p].result = NoResult]

\* A failed call: SyncTransactionsForItem returns the error and the loop of
\* its caller returns it in turn, leaving the remaining items.
SyncFailed(p) ==
    [proc EXCEPT ![p].pc = "done", ![p].ret = "err", ![p].err = TRUE,
                 ![p].queue = {}, ![p].cursor = EmptyStr, ![p].rules = <<>>, ![p].result = NoResult]

\* db.ListCategories and db.ListCategoryRules.
SyncLoad(p, categoriesOk, rulesOk) ==
    /\ proc[p].pc = "syncLoad"
    /\ proc' = IF categoriesOk /\ rulesOk
               THEN [proc EXCEPT ![p].pc = "syncFetch", ![p].rules = ListCategoryRules(ruleRows)]
               ELSE SyncFailed(p)
    /\ UNCHANGED <<items, txns, stream, used, linkTokens, plaidAccounts, committed, req, fixedVars, brokerVars>>

\* The same step of a loop that saves the cursor page by page.
SyncFetchSavingCursor(p, ok) ==
    /\ proc[p].pc = "syncFetch"
    /\ LET i == proc[p].cur.item_id
           result == TransactionsSync(i, proc[p].cursor)
       IN  IF ok
           THEN /\ proc' = [proc EXCEPT ![p].pc = "syncUpsert", ![p].result = result,
                                        ![p].writes = @ + 1]
                /\ items' = UpdatePlaidItemCursorAndPending(items, i, result.next_cursor, items[i].pending)
           ELSE /\ proc' = SyncFailed(p)
                /\ UNCHANGED items
    /\ UNCHANGED <<txns, stream, used, linkTokens, plaidAccounts, committed, req, fixedVars, brokerVars>>

\* plaidClient.TransactionsSync with the local cursor.
SyncFetch(p, ok) ==
    /\ proc[p].pc = "syncFetch"
    /\ LET i == proc[p].cur.item_id
           result == TransactionsSync(i, proc[p].cursor)
       IN  IF ok
           THEN /\ proc' = [proc EXCEPT ![p].pc = "syncUpsert", ![p].result = result]
           ELSE /\ proc' = SyncFailed(p)
    /\ UNCHANGED <<items, txns, stream, used, linkTokens, plaidAccounts, committed, req, fixedVars, brokerVars>>

\* The records of the page mapped through the resolver.
ToUpsert(result, rules) ==
    {plaidTransactionToDB(t, PlaidNameToCategoryID(Categories), UncategorizedID(Categories), rules) :
        t \in result.added \cup result.modified}

\* db.UpsertTransactions, called when the page has records to upsert.
SyncUpsert(p, ok) ==
    /\ proc[p].pc = "syncUpsert"
    /\ LET toUpsert == ToUpsert(proc[p].result, proc[p].rules)
           res == UpsertTransactions(txns, toUpsert)
       IN  IF toUpsert = {}
           THEN /\ ok
                /\ proc' = [proc EXCEPT ![p].pc = "syncDelete"]
                /\ UNCHANGED txns
           ELSE IF ok /\ ~res.err
           THEN /\ txns' = res.rows
                /\ proc' = [proc EXCEPT ![p].pc = "syncDelete"]
           ELSE /\ proc' = [SyncFailed(p) EXCEPT ![p].rejected = ok]
                /\ UNCHANGED txns
    /\ UNCHANGED <<items, stream, used, linkTokens, plaidAccounts, committed, req, fixedVars, brokerVars>>

\* The same step of a loop that never moves its local cursor.
SyncDeleteKeepingCursor(p, ok) ==
    /\ proc[p].pc = "syncDelete"
    /\ LET result == proc[p].result
           next == [proc EXCEPT ![p].pc = IF result.has_more THEN "syncFetch" ELSE "syncCommit",
                                ![p].pages = @ + 1]
       IN  IF result.removed = {}
           THEN /\ ok
                /\ proc' = next
                /\ UNCHANGED txns
           ELSE IF ok
           THEN /\ txns' = DeleteTransactionsByPlaidIDs(txns, result.removed)
                /\ proc' = next
           ELSE /\ proc' = SyncFailed(p)
                /\ UNCHANGED txns
    /\ UNCHANGED <<items, stream, used, linkTokens, plaidAccounts, committed, req, fixedVars, brokerVars>>

\* db.DeleteTransactionsByPlaidIDs, called when the page removes something;
\* then the local cursor moves on and the loop repeats while has_more.
SyncDelete(p, ok) ==
    /\ proc[p].pc = "syncDelete"
    /\ LET result == proc[p].result
           next == [proc EXCEPT ![p].pc = IF result.has_more THEN "syncFetch" ELSE "syncCommit",
                                ![p].cursor = result.next_cursor,
                                ![p].pages = @ + 1]
       IN  IF result.removed = {}
           THEN /\ ok
                /\ proc' = next
                /\ UNCHANGED txns
           ELSE IF ok
           THEN /\ txns' = DeleteTransactionsByPlaidIDs(txns, result.removed)
                /\ proc' = next
           ELSE /\ proc' = SyncFailed(p)
                /\ UNCHANGED txns
    /\ UNCHANGED <<items, stream, used, linkTokens, plaidAccounts, committed, req, fixedVars, brokerVars>>

\* db.UpdatePlaidItemCursorAndPending(item, cursor, false) after the loop.
SyncCommit(p, ok) ==
    /\ proc[p].pc = "syncCommit"
    /\ LET i == proc[p].cur.item_id
       IN  IF ok
           THEN /\ items' = UpdatePlaidItemCursorAndPending(items, i, proc[p].cursor, FALSE)
                /\ proc' = [proc EXCEPT ![p].pc = "syncNext", ![p].ret = "ok", ![p].writes = @ + 1]
                /\ committed' = IF items[i].exists
                                THEN [committed EXCEPT ![i] = [pos |-> Pos(proc[p].cursor),
                                                               rows |-> RowsOf(txns, i)]]
                                ELSE committed
           ELSE /\ proc' = SyncFailed(p)
                /\ UNCHANGED <<items, committed>>
    /\ UNCHANGED <<txns, stream, used, linkTokens, plaidAccounts, req, fixedVars, brokerVars>>

\* The handler has answered.
Finish(p) ==
    /\ proc[p].pc = "done"
    /\ proc' = [proc EXCEPT ![p] = [IdleProc EXCEPT !.strikes = proc[p].strikes,
                                                    !.rolled = proc[p].rolled]]
    /\ UNCHANGED <<items, txns, stream, used, linkTokens, plaidAccounts, committed, req, fixedVars, brokerVars>>

\* ------------------------------------------------------------------------
\* Linked items: the handlers of the bank side in the orders and overlaps
\* that the properties are about
\* ------------------------------------------------------------------------
\* Longest provider stream of the item-lifecycle specifications.
MaxLifecyclePages == 1

\* Pages of the item-lifecycle specifications: nothing new, or t1 added.
LifecyclePages(i) ==
    {page \in PagesOf(i) : \A t \in TxnOf(i) : page[t] = "none" \/ (t = "t1" /\ page[t] = "added")}

\* Outcomes of the item-lifecycle specifications: one of each effect.
LifecycleOutcomes ==
    { [kind |-> "ok", status |-> "OK"],
      [kind |-> "plaid_error", code |-> "ITEM_LOGIN_REQUIRED"],
      [kind |-> "plaid_error", code |-> "RATE_LIMIT_EXCEEDED"],
      [kind |-> "plaid_error", code |-> "INSTITUTION_DOWN"],
      [kind |-> "network_error"] }

\* ------------------------------------------------------------------------
\* Linking and reconnecting items, webhooks and the nightly run one after
\* the other, each call of each failing or not: a request arrives only when
\* no handler is at work
\* ------------------------------------------------------------------------
NextSequential ==
    \/ Quiet /\ \E i \in Items : \E page \in LifecyclePages(i) :
         Len(stream[i]) < MaxLifecyclePages /\ ProviderNewData(i, page)
    \/ Quiet /\ \E ok \in BOOLEAN : \E itemID \in Items :
         HandlePlaidWebhook("POST", TRUE, "SYNC_UPDATES_AVAILABLE", itemID, ok)
    \/ Quiet /\ \E itemID \in Items : handleCreatePlaidReconnectLinkToken(itemID, TRUE, TRUE)
    \/ Quiet /\ \E itemID \in Items : \E inst \in Insts \cup {""} : \E providerOk \in BOOLEAN :
         handleExchangePlaidPublicToken(itemID, inst, providerOk)
    \/ \E lookupOk \in BOOLEAN : ExchangeGetPlaidItemByInstitutionID(lookupOk)
    \/ \E ok \in BOOLEAN : ExchangeDeletePlaidItem(ok)
    \/ \E ok \in BOOLEAN : ExchangeUpsertPlaidItem(ok)
    \/ \E ok \in BOOLEAN : ExchangeUpsertPlaidAccounts(ok)
    \/ Quiet /\ NightlyStart(cronSecret, "")
    \/ \E ok \in BOOLEAN : HealthList(ok)
    \/ \E snap \in proc["nightly"].hcTodo : \E outcome \in LifecycleOutcomes : \E upsertOk \in BOOLEAN :
         HealthCheckItem(snap, outcome, upsertOk)
    \/ HealthDone
    \/ \E userRead \in UserReads :
         checkAndUpdateSnaptradeConnectionStatuses(userRead, TRUE, TRUE, {}, TRUE)
    \/ \E userRead \in UserReads : writeSnaptradeSnapshotsForToday(userRead, TRUE, <<>>, <<>>)
    \/ \E ok \in BOOLEAN : SyncList("nightly", ok)
    \/ \E snap \in proc["nightly"].queue : SyncBegin("nightly", snap)
    \/ SyncAllDone("nightly")
    \/ \E categoriesOk, rulesOk \in BOOLEAN : SyncLoad("nightly", categoriesOk, rulesOk)
    \/ \E ok \in BOOLEAN : SyncFetch("nightly", ok)
    \/ \E ok \in BOOLEAN : SyncUpsert("nightly", ok)
    \/ \E ok \in BOOLEAN : SyncDelete("nightly", ok)
    \/ \E ok \in BOOLEAN : SyncCommit("nightly", ok)
    \/ Finish("nightly")

SpecSequential == Init /\ [][NextSequential]_vars

\* ------------------------------------------------------------------------
\* The sync of one linked item over every kind of page, with webhooks
\* ------------------------------------------------------------------------
InitTxn ==
    /\ items = [i \in Items |-> IF i = "i1"
                                THEN [exists |-> TRUE, status |-> "OK", cursor |-> None,
                                      pending |-> FALSE, inst |-> Some("b1")]
                                ELSE NoItemRow]
    /\ txns = {}
    /\ ruleRows = SeedRules
    /\ stream = [i \in Items |-> <<>>]
    /\ used = {"i1"}
    /\ linkTokens = {}
    /\ plaidAccounts = [a \in PlaidAccountIDs |-> "i1"]
    /\ committed = [i \in Items |-> [pos |-> 0, rows |-> {}]]
    /\ proc = [p \in Procs |-> IdleProc]
    /\ req = [k \in Reqs |-> IdleReq]
    /\ catIn = None
    /\ retention = IdleRetention
    /\ catOut = None
    /\ InitBroker

NextTxn ==
    \/ \E page \in PagesOf("i1") : ProviderNewData("i1", page)
    \/ Quiet /\ HandlePlaidWebhook("POST", TRUE, "SYNC_UPDATES_AVAILABLE", "i1", TRUE)
    \/ ManualStart
    \/ \E ok \in BOOLEAN : SyncList("manual", ok)
    \/ \E snap \in proc["manual"].queue : SyncBegin("manual", snap)
    \/ SyncAllDone("manual")
    \/ \E categoriesOk, rulesOk \in BOOLEAN : SyncLoad("manual", categoriesOk, rulesOk)
    \/ \E ok \in BOOLEAN : SyncFetch("manual", ok)
    \/ \E ok \in BOOLEAN : SyncUpsert("manual", ok)
    \/ \E ok \in BOOLEAN : SyncDelete("manual", ok)
    \/ \E ok \in BOOLEAN : SyncCommit("manual", ok)
    \/ Finish("manual")

SpecTxn == InitTxn /\ [][NextTxn]_vars

\* ------------------------------------------------------------------------
\* The nightly batch (its item list for the health check failing) and the
\* manual sync of one linked item, overlapping, with no failing call
\* ------------------------------------------------------------------------
NextOverlap ==
    \/ \E page \in LifecyclePages("i1") :
         Len(stream["i1"]) < MaxLifecyclePages /\ ProviderNewData("i1", page)
    \/ HandlePlaidWebhook("POST", TRUE, "SYNC_UPDATES_AVAILABLE", "i1", TRUE)
    \/ NightlyStart(cronSecret, "")
    \/ HealthList(FALSE)
    \/ checkAndUpdateSnaptradeConnectionStatuses("none", TRUE, TRUE, {}, TRUE)
    \/ writeSnaptradeSnapshotsForToday("none", TRUE, <<>>, <<>>)
    \/ ManualStart
    \/ \E p \in Procs :
         \/ SyncList(p, TRUE)
         \/ \E snap \in proc[p].queue : SyncBegin(p, snap)
         \/ SyncAllDone(p)
         \/ SyncLoad(p, TRUE, TRUE)
         \/ SyncFetch(p, TRUE)
         \/ SyncUpsert(p, TRUE)
         \/ SyncDelete(p, TRUE)
         \/ SyncCommit(p, TRUE)
         \/ Finish(p)

SpecOverlap == InitTxn /\ [][NextOverlap]_vars

\* ------------------------------------------------------------------------
\* The nightly batch of one linked item, with webhooks and the removal of
\* the item arriving during it
\* ------------------------------------------------------------------------
NextHealthRace ==
    \/ \E page \in LifecyclePages("i1") :
         Len(stream["i1"]) < MaxLifecyclePages /\ ProviderNewData("i1", page)
    \/ HandlePlaidWebhook("POST", TRUE, "SYNC_UPDATES_AVAILABLE", "i1", TRUE)
    \/ handleRemovePlaidItem("i1", TRUE, TRUE)
    \/ RemoveDeletePlaidAccounts(TRUE)
    \/ RemoveDeletePlaidItem(TRUE)
    \/ NightlyStart(cronSecret, "")
    \/ HealthList(TRUE)
    \/ \E snap \in proc["nightly"].hcTodo :
         \E outcome \in {[kind |-> "ok", status |-> "OK"],
                         [kind |-> "plaid_error", code |-> "ITEM_LOGIN_REQUIRED"]} :
           HealthCheckItem(snap, outcome, TRUE)
    \/ HealthDone
    \/ checkAndUpdateSnaptradeConnectionStatuses("none", TRUE, TRUE, {}, TRUE)
    \/ writeSnaptradeSnapshotsForToday("none", TRUE, <<>>, <<>>)
    \/ SyncList("nightly", TRUE)
    \/ \E snap \in proc["nightly"].queue : SyncBegin("nightly", snap)
    \/ SyncAllDone("nightly")
    \/ SyncLoad("nightly", TRUE, TRUE)
    \/ SyncFetch("nightly", TRUE)
    \/ SyncUpsert("nightly", TRUE)
    \/ SyncDelete("nightly", TRUE)
    \/ SyncCommit("nightly", TRUE)
    \/ Finish("nightly")

SpecHealthRace == InitTxn /\ [][NextHealthRace]_vars

\* ------------------------------------------------------------------------
\* Linking, reconnecting and removing items, one request at a time, every
\* store call of the handlers failing or not, with webhooks in between
\* ------------------------------------------------------------------------
NextLink ==
    \/ Quiet /\ \E itemID \in Items : \E getOk, providerOk \in BOOLEAN :
         handleCreatePlaidReconnectLinkToken(itemID, getOk, providerOk)
    \/ Quiet /\ \E itemID \in Items : \E inst \in Insts \cup {""} :
         \E providerOk \in BOOLEAN :
           handleExchangePlaidPublicToken(itemID, inst, providerOk)
    \/ \E lookupOk \in BOOLEAN : ExchangeGetPlaidItemByInstitutionID(lookupOk)
    \/ \E ok \in BOOLEAN : ExchangeDeletePlaidItem(ok)
    \/ \E ok \in BOOLEAN : ExchangeUpsertPlaidItem(ok)
    \/ \E ok \in BOOLEAN : ExchangeUpsertPlaidAccounts(ok)
    \/ Quiet /\ \E itemID \in Items : \E getOk, removeOk \in BOOLEAN :
         handleRemovePlaidItem(itemID, getOk, removeOk)
    \/ \E ok \in BOOLEAN : RemoveDeletePlaidAccounts(ok)
    \/ \E ok \in BOOLEAN : RemoveDeletePlaidItem(ok)
    \/ \E itemID \in Items : HandlePlaidWebhook("POST", TRUE, "SYNC_UPDATES_AVAILABLE", itemID, TRUE)

SpecLink == Init /\ [][NextLink]_vars

\* ------------------------------------------------------------------------
\* The webhook over every kind of request, between and during syncs of a
\* linked item
\* ------------------------------------------------------------------------
\* webhook_code values: the new-data code, another code, and none
WebhookCodes == {"SYNC_UPDATES_AVAILABLE", "DEFAULT_UPDATE", ""}

\* item_id values: the linked item, an item with no row, and none
WebhookItemIDs == Items \cup {""}

NextWebhook ==
    \/ \E page \in LifecyclePages("i1") :
         Len(stream["i1"]) < MaxLifecyclePages /\ ProviderNewData("i1", page)
    \/ \E itemID \in Items : HandlePlaidWebhook("GET", TRUE, "SYNC_UPDATES_AVAILABLE", itemID, TRUE)
    \/ HandlePlaidWebhook("POST", FALSE, "", "", TRUE)
    \/ \E code \in WebhookCodes : \E itemID \in WebhookItemIDs :
         \E ok \in (IF code = "SYNC_UPDATES_AVAILABLE" /\ itemID # "" THEN BOOLEAN ELSE {TRUE}) :
           HandlePlaidWebhook("POST", TRUE, code, itemID, ok)
    \/ ManualStart
    \/ \E ok \in BOOLEAN : SyncList("manual", ok)
    \/ \E snap \in proc["manual"].queue : SyncBegin("manual", snap)
    \/ SyncAllDone("manual")
    \/ \E categoriesOk, rulesOk \in BOOLEAN : SyncLoad("manual", categoriesOk, rulesOk)
    \/ \E ok \in BOOLEAN : SyncFetch("manual", ok)
    \/ \E ok \in BOOLEAN : SyncUpsert("manual", ok)
    \/ \E ok \in BOOLEAN : SyncDelete("manual", ok)
    \/ \E ok \in BOOLEAN : SyncCommit("manual", ok)
    \/ Finish("manual")

SpecWebhook == InitTxn /\ [][NextWebhook]_vars

\* ------------------------------------------------------------------------
\* The bank health check over every answer of the provider, an item being
\* linked and removed meanwhile
\* ------------------------------------------------------------------------
NextHealth ==
    \/ handleCreatePlaidReconnectLinkToken("i1", TRUE, TRUE)
    \/ \E inst \in Insts \cup {""} : handleExchangePlaidPublicToken("i1", inst, TRUE)
    \/ ExchangeGetPlaidItemByInstitutionID(TRUE)
    \/ ExchangeUpsertPlaidItem(TRUE)
    \/ ExchangeUpsertPlaidAccounts(TRUE)
    \/ handleRemovePlaidItem("i1", TRUE, TRUE)
    \/ RemoveDeletePlaidAccounts(TRUE)
    \/ RemoveDeletePlaidItem(TRUE)
    \/ NightlyStart(cronSecret, "")
    \/ \E ok \in BOOLEAN : HealthList(ok)
    \/ \E snap \in proc["nightly"].hcTodo : \E outcome \in GetItemOutcomes : \E upsertOk \in BOOLEAN :
         HealthCheckItem(snap, outcome, upsertOk)
    \/ HealthDone
    \/ \E userRead \in UserReads :
         checkAndUpdateSnaptradeConnectionStatuses(userRead, TRUE, TRUE, {}, TRUE)
    \/ \E userRead \in UserReads : writeSnaptradeSnapshotsForToday(userRead, TRUE, <<>>, <<>>)
    \/ \E ok \in BOOLEAN : SyncList("nightly", ok)
    \/ SyncAllDone("nightly")
    \/ Finish("nightly")

SpecHealth == Init /\ [][NextHealth]_vars

\* ------------------------------------------------------------------------
\* Brokerage connections: sync-connections, removal and the nightly health
\* check, overlapping
\* ------------------------------------------------------------------------
\* The owner has registered with the brokerage aggregator.
InitBrokerage ==
    /\ items = [i \in Items |-> NoItemRow]
    /\ txns = {}
    /\ ruleRows = SeedRules
    /\ stream = [i \in Items |-> <<>>]
    /\ used = {}
    /\ linkTokens = {}
    /\ plaidAccounts = [a \in PlaidAccountIDs |-> ""]
    /\ committed = [i \in Items |-> [pos |-> 0, rows |-> {}]]
    /\ proc = [p \in Procs |-> IdleProc]
    /\ req = [k \in Reqs |-> IdleReq]
    /\ catIn = None
    /\ retention = IdleRetention
    /\ catOut = None
    /\ cronSecret = ConfiguredSecret
    /\ http = NoResponse
    /\ tab = InitTab
    /\ user = TRUE
    /\ conns = [c \in ConnIDs |-> NoConnRow]
    /\ daily = {}
    /\ holdings = {}
    /\ monthly = {}
    /\ today = StartDate

NextBrokerage ==
    \/ \E userRead \in UserReads : \E listOk \in BOOLEAN : \E listed \in SUBSET ConnIDs :
         handleSnaptradeSyncConnections(userRead, listOk, listed)
    \/ \E answer \in {"ok", "status", "transport"} : SyncConnectionsUpsert(answer)
    \/ \E ok \in BOOLEAN : SyncConnectionsDeleteNotIn(ok)
    \/ \E connID \in ConnIDs : \E userRead \in UserReads : \E removeOk \in BOOLEAN :
         handleRemoveSnaptradeConnection(connID, userRead, removeOk)
    \/ \E ok \in BOOLEAN : RemoveDeleteSnaptradeConnection(ok)
    \/ NightlyStart(cronSecret, "")
    \/ HealthList(FALSE)
    \/ \E userRead \in UserReads : \E readOk, listOk, accountsOk \in BOOLEAN :
         \E listed \in SUBSET ConnIDs :
           checkAndUpdateSnaptradeConnectionStatuses(userRead, readOk, listOk, listed, accountsOk)
    \/ \E c \in ConnIDs : \E ok \in BOOLEAN : PatchSnaptradeConnection(c, ok)
    \/ SyncList("nightly", TRUE)
    \/ SyncAllDone("nightly")
    \/ writeSnaptradeSnapshotsForToday("ok", FALSE, <<>>, <<>>)
    \/ Finish("nightly")

SpecBrokerage == InitBrokerage /\ [][NextBrokerage]_vars

\* ------------------------------------------------------------------------
\* The connect portal opened from the app's tab, with the backend's
\* connect-url and sync-connections handlers serving the requests
\* ------------------------------------------------------------------------
NextConnect ==
    \/ \E userRead \in UserReads : \E registerOk, portalOk \in BOOLEAN :
         handleSnaptradeConnectURL(userRead, registerOk, portalOk)
    \/ \E ok, portalOk \in BOOLEAN : ConnectURLCreateSnaptradeUser(ok, portalOk)
    \/ \E c \in Calls : openSnaptradeConnect(c)
    \/ \E c \in Calls : \E urlOk \in BOOLEAN : ConnectURLSettled(c, urlOk)
    \/ VisibilityChange
    \/ \E c \in Calls : ReturnTimeout(c)
    \/ \E c \in Calls : \E ok, callbackThrows \in BOOLEAN : SyncConnectionsSettled(c, ok, callbackThrows)
    \/ \E listed \in SUBSET ConnIDs : handleSnaptradeSyncConnections("ok", TRUE, listed)
    \/ SyncConnectionsUpsert("ok")
    \/ SyncConnectionsDeleteNotIn(TRUE)

SpecConnect == Init /\ [][NextConnect]_vars

\* ------------------------------------------------------------------------
\* Portfolio snapshots: nightly runs over the days of the clock
\* ------------------------------------------------------------------------
NextSnapshots ==
    \/ today # AddDays(StartDate, MaxDays) /\ NextDay
    \/ NightlyStart(cronSecret, "")
    \/ HealthList(FALSE)
    \/ checkAndUpdateSnaptradeConnectionStatuses("none", TRUE, TRUE, {}, TRUE)
    \/ SyncList("nightly", TRUE)
    \/ SyncAllDone("nightly")
    \/ \E userRead \in {"none", "err"} : writeSnaptradeSnapshotsForToday(userRead, TRUE, <<>>, <<>>)
    \/ writeSnaptradeSnapshotsForToday("ok", FALSE, <<>>, <<>>)
    \/ \E accounts \in AccountLists :
         \E positions \in {f \in [DOMAIN accounts -> PositionLists] :
                              \A a \in DOMAIN accounts : f[a] \in PositionListsOf(a)} :
           writeSnaptradeSnapshotsForToday("ok", TRUE, accounts, positions)
    \/ \E holding \in proc["nightly"].pass.holdTodo : \E ok \in BOOLEAN :
         SnapshotUpsertDailyHolding(holding, ok)
    \/ \E ok \in BOOLEAN : SnapshotUpsertDailySnapshot(ok)
    \/ \E a \in Accounts : \E ok \in BOOLEAN : SnapshotUpsertMonthlySnapshot(a, ok)
    \/ Finish("nightly")

SpecSnapshots == InitBrokerage /\ [][NextSnapshots]_vars

\* ------------------------------------------------------------------------
\* Snapshot passes over two accounts that both hold positions, the fetch of
\* either's positions failing or not, the store reachable at every write
\* ------------------------------------------------------------------------
NextPositions ==
    \/ today # AddDays(StartDate, MaxDays) /\ NextDay
    \/ NightlyStart(cronSecret, "")
    \/ HealthList(FALSE)
    \/ checkAndUpdateSnaptradeConnectionStatuses("ok", TRUE, TRUE, {}, TRUE)
    \/ SyncList("nightly", TRUE)
    \/ SyncAllDone("nightly")
    \/ \E accounts \in {f \in AccountLists : DOMAIN f = Accounts} :
         \E positions \in [Accounts -> PositionLists] :
           writeSnaptradeSnapshotsForToday("ok", TRUE, accounts, positions)
    \/ \E holding \in proc["nightly"].pass.holdTodo : SnapshotUpsertDailyHolding(holding, TRUE)
    \/ SnapshotUpsertDailySnapshot(TRUE)
    \/ \E a \in Accounts : SnapshotUpsertMonthlySnapshot(a, TRUE)
    \/ Finish("nightly")

SpecPositions == InitBrokerage /\ [][NextPositions]_vars

\* ------------------------------------------------------------------------
\* The batch trigger over every placement of the shared secret
\* ------------------------------------------------------------------------
\* Values of the X-Cron-Secret header and of the secret query parameter
\* ("" when absent).
SecretValues == {ConfiguredSecret, "x", ""}

NextCron ==
    \/ Quiet /\ \E itemID \in Items : handleCreatePlaidReconnectLinkToken(itemID, TRUE, TRUE)
    \/ Quiet /\ \E itemID \in Items : \E inst \in Insts \cup {""} :
         handleExchangePlaidPublicToken(itemID, inst, TRUE)
    \/ \E lookupOk \in BOOLEAN : ExchangeGetPlaidItemByInstitutionID(lookupOk)
    \/ \E ok \in BOOLEAN : ExchangeDeletePlaidItem(ok)
    \/ \E ok \in BOOLEAN : ExchangeUpsertPlaidItem(ok)
    \/ ExchangeUpsertPlaidAccounts(TRUE)
    \/ \E headerSecret, querySecret \in SecretValues : NightlyStart(headerSecret, querySecret)
    \/ \E ok \in BOOLEAN : HealthList(ok)
    \/ \E snap \in proc["nightly"].hcTodo : \E outcome \in LifecycleOutcomes : \E upsertOk \in BOOLEAN :
         HealthCheckItem(snap, outcome, upsertOk)
    \/ HealthDone
    \/ \E userRead \in UserReads :
         checkAndUpdateSnaptradeConnectionStatuses(userRead, TRUE, TRUE, {}, TRUE)
    \/ \E ok \in BOOLEAN : SyncList("nightly", ok)
    \/ SyncAllDone("nightly")
    \/ \E userRead \in UserReads : writeSnaptradeSnapshotsForToday(userRead, TRUE, <<>>, <<>>)
    \/ Finish("nightly")

SpecCron == Init /\ [][NextCron]_vars

\* The batch trigger of a deployment whose CRON_SECRET is set or is empty.
InitCronConfig ==
    /\ items = [i \in Items |-> NoItemRow]
    /\ txns = {}
    /\ ruleRows = SeedRules
    /\ stream = [i \in Items |-> <<>>]
    /\ used = {}
    /\ linkTokens = {}
    /\ plaidAccounts = [a \in PlaidAccountIDs |-> ""]
    /\ committed = [i \in Items |-> [pos |-> 0, rows |-> {}]]
    /\ proc = [p \in Procs |-> IdleProc]
    /\ req = [k \in Reqs |-> IdleReq]
    /\ catIn = None
    /\ retention = IdleRetention
    /\ catOut = None
    /\ cronSecret \in {ConfiguredSecret, ""}
    /\ http = NoResponse
    /\ tab = InitTab
    /\ user = FALSE
    /\ conns = [c \in ConnIDs |-> NoConnRow]
    /\ daily = {}
    /\ holdings = {}
    /\ monthly = {}
    /\ today = StartDate

SpecCronConfig == InitCronConfig /\ [][NextCron]_vars

\* ------------------------------------------------------------------------
\* The retention pass beside the nightly runs of one account whose writes
\* the store takes, over the months of the clock
\* ------------------------------------------------------------------------
NextRetention ==
    \/ today.d # 1 /\ today # AddDays(StartDate, MaxDays) /\ NextDay
    \/ (today.y * 12 + today.m) - (StartDate.y * 12 + StartDate.m) < MaxMonths /\ NextMonth
    \/ NightlyStart(cronSecret, "")
    \/ HealthList(FALSE)
    \/ checkAndUpdateSnaptradeConnectionStatuses("none", TRUE, TRUE, {}, TRUE)
    \/ SyncList("nightly", TRUE)
    \/ SyncAllDone("nightly")
    \/ \E accounts \in {f \in AccountLists : DOMAIN f = {"a1"}} :
         \E positions \in {f \in [DOMAIN accounts -> PositionLists] :
                              \A a \in DOMAIN accounts :
                                 /\ f[a].ok /\ DOMAIN f[a].list # {}
                                 /\ \A sym \in DOMAIN f[a].list : f[a].list[sym].quantity = 1} :
           writeSnaptradeSnapshotsForToday("ok", TRUE, accounts, positions)
    \/ \E holding \in proc["nightly"].pass.holdTodo : SnapshotUpsertDailyHolding(holding, TRUE)
    \/ SnapshotUpsertDailySnapshot(TRUE)
    \/ \E a \in Accounts : SnapshotUpsertMonthlySnapshot(a, TRUE)
    \/ Finish("nightly")
    \/ \E month \in {[r.date EXCEPT !.d = 1] : r \in daily} \cup {[h.date EXCEPT !.d = 1] : h \in holdings} :
         \E exportOk \in BOOLEAN : RetentionStart(month, exportOk)
    \/ \E a \in Accounts : \E ok \in BOOLEAN : RetentionConfirmMonthly(a, ok)
    \/ \E table \in retention.tables : \E ok \in BOOLEAN : RetentionDelete(table, ok)

SpecRetention == InitBrokerage /\ [][NextRetention]_vars

\* ------------------------------------------------------------------------
\* The system: every handler is a plain HTTP handler and nothing serializes
\* them, so a request is taken whatever the others are doing, and every call
\* of the store, of the provider and of the aggregator fails or not. The
\* specifications above are parts of this one.
\* ------------------------------------------------------------------------
Next ==
    \/ today # AddDays(StartDate, MaxDays) /\ NextDay
    \/ (today.y * 12 + today.m) - (StartDate.y * 12 + StartDate.m) < MaxMonths /\ NextMonth
    \/ \E month \in {[r.date EXCEPT !.d = 1] : r \in daily} \cup {[h.date EXCEPT !.d = 1] : h \in holdings} :
         \E exportOk \in BOOLEAN : RetentionStart(month, exportOk)
    \/ \E a \in Accounts : \E ok \in BOOLEAN : RetentionConfirmMonthly(a, ok)
    \/ \E table \in retention.tables : \E ok \in BOOLEAN : RetentionDelete(table, ok)
    \/ \E i \in Items : \E page \in PagesOf(i) : ProviderNewData(i, page)
    \/ \E method \in {"POST", "GET"} : \E validJSON, ok \in BOOLEAN :
         \E code \in WebhookCodes : \E itemID \in WebhookItemIDs :
           HandlePlaidWebhook(method, validJSON, code, itemID, ok)
    \/ \E itemID \in Items \cup {""} : \E getOk, providerOk \in BOOLEAN :
         handleCreatePlaidReconnectLinkToken(itemID, getOk, providerOk)
    \/ \E itemID \in Items : \E inst \in Insts \cup {""} : \E providerOk \in BOOLEAN :
         handleExchangePlaidPublicToken(itemID, inst, providerOk)
    \/ \E lookupOk \in BOOLEAN : ExchangeGetPlaidItemByInstitutionID(lookupOk)
    \/ \E ok \in BOOLEAN : ExchangeDeletePlaidItem(ok)
    \/ \E ok \in BOOLEAN : ExchangeUpsertPlaidItem(ok)
    \/ \E ok \in BOOLEAN : ExchangeUpsertPlaidAccounts(ok)
    \/ \E itemID \in Items : \E getOk, removeOk \in BOOLEAN :
         handleRemovePlaidItem(itemID, getOk, removeOk)
    \/ \E ok \in BOOLEAN : RemoveDeletePlaidAccounts(ok)
    \/ \E ok \in BOOLEAN : RemoveDeletePlaidItem(ok)
    \/ \E userRead \in UserReads : \E registerOk, portalOk \in BOOLEAN :
         handleSnaptradeConnectURL(userRead, registerOk, portalOk)
    \/ \E ok, portalOk \in BOOLEAN : ConnectURLCreateSnaptradeUser(ok, portalOk)
    \/ \E userRead \in UserReads : \E listOk \in BOOLEAN : \E listed \in SUBSET ConnIDs :
         handleSnaptradeSyncConnections(userRead, listOk, listed)
    \/ \E answer \in {"ok", "status", "transport"} : SyncConnectionsUpsert(answer)
    \/ \E ok \in BOOLEAN : SyncConnectionsDeleteNotIn(ok)
    \/ \E connID \in ConnIDs : \E userRead \in UserReads : \E removeOk \in BOOLEAN :
         handleRemoveSnaptradeConnection(connID, userRead, removeOk)
    \/ \E ok \in BOOLEAN : RemoveDeleteSnaptradeConnection(ok)
    \/ \E c \in Calls : openSnaptradeConnect(c)
    \/ \E c \in Calls : \E urlOk \in BOOLEAN : ConnectURLSettled(c, urlOk)
    \/ VisibilityChange
    \/ \E c \in Calls : ReturnTimeout(c)
    \/ \E c \in Calls : \E ok, callbackThrows \in BOOLEAN : SyncConnectionsSettled(c, ok, callbackThrows)
    \/ \E headerSecret, querySecret \in SecretValues : NightlyStart(headerSecret, querySecret)
    \/ \E ok \in BOOLEAN : HealthList(ok)
    \/ \E snap \in proc["nightly"].hcTodo : \E outcome \in GetItemOutcomes : \E upsertOk \in BOOLEAN :
         HealthCheckItem(snap, outcome, upsertOk)
    \/ HealthDone
    \/ \E userRead \in UserReads : \E readOk, listOk, accountsOk \in BOOLEAN :
         \E listed \in SUBSET ConnIDs :
           checkAndUpdateSnaptradeConnectionStatuses(userRead, readOk, listOk, listed, accountsOk)
    \/ \E c \in ConnIDs : \E ok \in BOOLEAN : PatchSnaptradeConnection(c, ok)
    \/ \E userRead \in UserReads : \E accountsOk \in BOOLEAN : \E accounts \in AccountLists :
         \E positions \in [DOMAIN accounts -> PositionLists] :
           writeSnaptradeSnapshotsForToday(userRead, accountsOk, accounts, positions)
    \/ \E holding \in proc["nightly"].pass.holdTodo : \E ok \in BOOLEAN :
         SnapshotUpsertDailyHolding(holding, ok)
    \/ \E ok \in BOOLEAN : SnapshotUpsertDailySnapshot(ok)
    \/ \E a \in Accounts : \E ok \in BOOLEAN : SnapshotUpsertMonthlySnapshot(a, ok)
    \/ ManualStart
    \/ \E p \in Procs :
         \/ \E ok \in BOOLEAN : SyncList(p, ok)
         \/ \E snap \in proc[p].queue : SyncBegin(p, snap)
         \/ SyncAllDone(p)
         \/ \E categoriesOk, rulesOk \in BOOLEAN : SyncLoad(p, categoriesOk, rulesOk)
         \/ \E ok \in BOOLEAN : SyncFetch(p, ok)
         \/ \E ok \in BOOLEAN : SyncUpsert(p, ok)
         \/ \E ok \in BOOLEAN : SyncDelete(p, ok)
         \/ \E ok \in BOOLEAN : SyncCommit(p, ok)
         \/ Finish(p)

Spec == Init /\ [][Next]_vars
\* ------------------------------------------------------------------------
\* GET /api/budget: the month's spending by category
\* ------------------------------------------------------------------------
\* The rows of the categories table after the migration, in id order.
SeedCategoryList ==
    << [id |-> 1,  name |-> "Uncategorized",             expense |-> TRUE],
       [id |-> 2,  name |-> "Food and Drink",            expense |-> TRUE],
       [id |-> 3,  name |-> "Shops",                     expense |-> TRUE],
       [id |-> 4,  name |-> "Travel",                    expense |-> TRUE],
       [id |-> 5,  name |-> "Transfer",                  expense |-> FALSE],
       [id |-> 6,  name |-> "Payment",                   expense |-> FALSE],
       [id |-> 7,  name |-> "Recreation",                expense |-> TRUE],
       [id |-> 8,  name |-> "Service",                   expense |-> TRUE],
       [id |-> 9,  name |-> "Bank Fees",                 expense |-> TRUE],
       [id |-> 10, name |-> "Rent and Utilities",        expense |-> TRUE],
       [id |-> 11, name |-> "Healthcare",                expense |-> TRUE],
       [id |-> 12, name |-> "Personal",                  expense |-> TRUE],
       [id |-> 13, name |-> "Education",                 expense |-> TRUE],
       [id |-> 14, name |-> "Government and Non-Profit", expense |-> TRUE],
       [id |-> 15, name |-> "Income",                    expense |-> FALSE],
       [id |-> 16, name |-> "Venmo",                     expense |-> TRUE],
       [id |-> 17, name |-> "Investments",               expense |-> FALSE] >>

\* The table as migrated, and with one expense category added to it later.
CategoryTables ==
    { SeedCategoryList,
      Append(SeedCategoryList, [id |-> 18, name |-> "Gifts", expense |-> TRUE]) }

\* The month (YYYY-MM) a transaction date lies in; the two dates of the
\* provider's transactions lie in different months.
BudgetMonths == {"2024-01", "2024-02"}
MonthOfDate(date) == IF date = 1 THEN "2024-01" ELSE "2024-02"

\* The rows the store answers ListTransactions with: those of the month, all
\* of them without month filter.
TransactionsOfMonth(store, month) ==
    {t \in store : month = "" \/ MonthOfDate(t.date) = month}

\* ListTransactions. storeOk: the store answers. The answer carries the
\* date of a row as the store renders a DATE column, YYYY-MM-DD, which does
\* not decode into the time.Time of Transaction.Date (RFC 3339 with a time
\* is required): an answer that holds a row is an error, only the empty
\* answer is a list.
ListTransactions(store, month, storeOk) ==
    LET rows == TransactionsOfMonth(store, month)
    IN  IF ~storeOk \/ rows # {}
        THEN [err |-> TRUE, list |-> {}]
        ELSE [err |-> FALSE, list |-> rows]

RECURSIVE AmountSum(_)
AmountSum(transactions) ==
    IF transactions = {} THEN 0
    ELSE LET t == CHOOSE x \in transactions : TRUE
         IN  t.amount_cents + AmountSum(transactions \ {t})

\* calculateMonthlySpentByCategory over the listed transactions and the
\* listed categories: the pointer of every transaction is dereferenced, the
\* list of categories is indexed (from 0) by the category id. panicked: the
\* goroutine of the request panics (nil pointer, index out of range).
calculateMonthlySpentByCategory(transactions, categories) ==
    LET expenseCategoryIDs == {categories[k].id : k \in {j \in DOMAIN categories : categories[j].expense}}
        counted == {t \in transactions : IsSome(t.category_id)
                                         /\ Get(t.category_id) \in expenseCategoryIDs}
        categoryName(t) == categories[Get(t.category_id) + 1].name
    IN  IF \/ \E t \in transactions : ~IsSome(t.category_id)
           \/ \E t \in counted : Get(t.category_id) + 1 \notin DOMAIN categories
        THEN [panicked |-> TRUE, spent |-> <<>>]
        ELSE [panicked |-> FALSE,
              spent |-> [n \in {categoryName(t) : t \in counted} |->
                            AmountSum({t \in counted : categoryName(t) = n})]]

\* handleGetBudget. budgetOk, transactionsOk, categoriesOk: the store
\* answers GetBudget, ListTransactions, ListCategories; categories is the
\* table ListCategories reads, which has every category a transaction
\* refers to. The allocations of the answer are not modelled. A panic is
\* recovered by the HTTP server, which answers nothing (status 0).
\* readsAnswered: the store answered every read the handler made.
handleGetBudget(month, budgetOk, transactionsOk, categories, categoriesOk) ==
    /\ \A t \in txns : IsSome(t.category_id) =>
                         \E k \in DOMAIN categories : categories[k].id = Get(t.category_id)
    /\ LET listed == ListTransactions(txns, month, transactionsOk)
           result == calculateMonthlySpentByCategory(listed.list, categories)
           status == IF month = "" THEN 400
                     ELSE IF ~budgetOk THEN 500
                     ELSE IF listed.err THEN 500
                     ELSE IF ~categoriesOk THEN 500
                     ELSE IF result.panicked THEN 0
                     ELSE 200
       IN  http' = [handler |-> "budget", month |-> month, categories |-> categories,
                    readsAnswered |-> month # "" /\ budgetOk /\ transactionsOk
                                      /\ (listed.err \/ categoriesOk),
                    status |-> status,
                    spent |-> IF status = 200 THEN result.spent ELSE <<>>]
    /\ UNCHANGED <<items, txns, stream, used, linkTokens, plaidAccounts, committed, proc, req, fixedVars, snapVars>>

\* Stored transactions: one of the first month, one of either month, each
\* without category or with one of five.
BudgetCategoryIDs == {None, Some(1), Some(5), Some(16), Some(18)}

BudgetRow(id, date, cents, categoryID) ==
    [ plaid_account_id |-> "acc", plaid_transaction_id |-> id, date |-> date,
      amount_cents |-> cents, name |-> <<"a">>, merchant_name |-> None,
      category_id |-> categoryID, pending |-> FALSE ]

InitBudget ==
    /\ items = [i \in Items |-> IF i = "i1"
                                THEN [exists |-> TRUE, status |-> "OK", cursor |-> None,
                                      pending |-> FALSE, inst |-> Some("b1")]
                                ELSE NoItemRow]
    /\ txns \in {r1 \cup r2 :
                   r1 \in {{}} \cup {{BudgetRow("t1", 1, 125, c)} : c \in BudgetCategoryIDs},
                   r2 \in {{}} \cup {{BudgetRow("t2", d, -200, c)} :
                                        d \in {1, 2}, c \in BudgetCategoryIDs}}
    /\ ruleRows = SeedRules
    /\ stream = [i \in Items |-> <<>>]
    /\ used = {"i1"}
    /\ linkTokens = {}
    /\ plaidAccounts = [a \in PlaidAccountIDs |-> "i1"]
    /\ committed = [i \in Items |-> [pos |-> 0, rows |-> {}]]
    /\ proc = [p \in Procs |-> IdleProc]
    /\ req = [k \in Reqs |-> IdleReq]
    /\ catIn = None
    /\ retention = IdleRetention
    /\ catOut = None
    /\ InitBroker

NextBudget ==
    \E month \in BudgetMonths \cup {""}, budgetOk, transactionsOk, categoriesOk \in BOOLEAN,
       categories \in CategoryTables :
        handleGetBudget(month, budgetOk, transactionsOk, categories, categoriesOk)

SpecBudget == InitBudget /\ [][NextBudget]_vars

\* ------------------------------------------------------------------------
\* Portfolio snapshots: one day's runs, for every day of several years
\* ------------------------------------------------------------------------
\* A common year, a leap year, and the two kinds of century year.
CalendarDates ==
    {date \in [y : {2000, 2023, 2024, 2100}, m : 1..12, d : 1..31] : date.d <= DaysInMonth(date.y, date.m)}

InitCalendar ==
    /\ items = [i \in Items |-> NoItemRow]
    /\ txns = {}
    /\ ruleRows = SeedRules
    /\ stream = [i \in Items |-> <<>>]
    /\ used = {}
    /\ linkTokens = {}
    /\ plaidAccounts = [a \in PlaidAccountIDs |-> ""]
    /\ committed = [i \in Items |-> [pos |-> 0, rows |-> {}]]
    /\ proc = [p \in Procs |-> IdleProc]
    /\ req = [k \in Reqs |-> IdleReq]
    /\ catIn = None
    /\ retention = IdleRetention
    /\ catOut = None
    /\ cronSecret = ConfiguredSecret
    /\ http = NoResponse
    /\ tab = InitTab
    /\ user = TRUE
    /\ conns = [c \in ConnIDs |-> NoConnRow]
    /\ daily = {}
    /\ holdings = {}
    /\ monthly = {}
    /\ today \in CalendarDates

NextCalendar ==
    \/ NightlyStart(cronSecret, "")
    \/ HealthList(FALSE)
    \/ checkAndUpdateSnaptradeConnectionStatuses("none", TRUE, TRUE, {}, TRUE)
    \/ SyncList("nightly", TRUE)
    \/ SyncAllDone("nightly")
    \/ \E accounts \in AccountLists :
         writeSnaptradeSnapshotsForToday("ok", TRUE, accounts,
                                         [a \in DOMAIN accounts |-> [ok |-> TRUE, list |-> <<>>]])
    \/ \E ok \in BOOLEAN : SnapshotUpsertDailySnapshot(ok)
    \/ \E a \in Accounts : \E ok \in BOOLEAN : SnapshotUpsertMonthlySnapshot(a, ok)
    \/ Finish("nightly")

SpecCalendar == InitCalendar /\ [][NextCalendar]_vars

\* ------------------------------------------------------------------------
\* The resolver over every small transaction and rule table
\* ------------------------------------------------------------------------
RuleMatchStrings == {<<"a">>, <<"A", "b">>}
RuleCategoryIDs == {16, 2}

\* Rule tables: rows with distinct ids out of 1..MaxRules.
RuleTables ==
    { {[id |-> k, match_string |-> f[k][1], category_id |-> f[k][2]] : k \in S} :
        S \in SUBSET (1..MaxRules),
        f \in [1..MaxRules -> RuleMatchStrings \X RuleCategoryIDs] }

\* Provider transactions given to the resolver.
ResolverInputs ==
    { [ transaction_id |-> "t1", account_id |-> "acc", amount |-> 1256, date |-> 1,
        name |-> n, merchant_name |-> m, category |-> c, pending |-> FALSE ] :
        n \in StringsUpTo(MaxNameLen),
        m \in {None} \cup {Some(x) : x \in StringsUpTo(MaxMerchLen)},
        c \in {<<>>} \cup {<<pc>> : pc \in PrimaryCategories} }

InitCat ==
    /\ items = [i \in Items |-> NoItemRow]
    /\ txns = {}
    /\ ruleRows \in RuleTables
    /\ stream = [i \in Items |-> <<>>]
    /\ used = {}
    /\ linkTokens = {}
    /\ plaidAccounts = [a \in PlaidAccountIDs |-> ""]
    /\ committed = [i \in Items |-> [pos |-> 0, rows |-> {}]]
    /\ proc = [p \in Procs |-> IdleProc]
    /\ req = [k \in Reqs |-> IdleReq]
    /\ catIn \in {Some(p) : p \in ResolverInputs}
    /\ retention = IdleRetention
    /\ catOut = None
    /\ InitBroker

\* The sync maps one record of a page, with the maps and rules it loaded.
ResolveOne ==
    /\ IsSome(catIn)
    /\ catOut = None
    /\ InitBroker
    /\ catOut' = Some(plaidTransactionToDB(Get(catIn), PlaidNameToCategoryID(Categories),
                                           UncategorizedID(Categories), ListCategoryRules(ruleRows)))
    /\ UNCHANGED <<items, txns, ruleRows, stream, used, linkTokens, plaidAccounts, tab, committed, proc, req, catIn,
                   retention, brokerVars>>

NextCat == ResolveOne

SpecCat == InitCat /\ [][NextCat]_vars


\* The page loop of SyncTransactionsForItem run without failure from
\* position k to position n of the item's change-stream, on the rows of
\* store: the rows afterwards, and err when the store rejects a page.
RECURSIVE UninterruptedRun(_, _, _, _)
UninterruptedRun(store, i, k, n) ==
    IF k >= n THEN [err |-> FALSE, rows |-> store]
    ELSE LET result == TransactionsSync(i, CursorStr(i, k))
             toUpsert == ToUpsert(result, ListCategoryRules(ruleRows))
             upserted == UpsertTransactions(store, toUpsert)
         IN  IF toUpsert # {} /\ upserted.err
             THEN [err |-> TRUE, rows |-> store]
             ELSE UninterruptedRun(DeleteTransactionsByPlaidIDs(upserted.rows, result.removed),
                                   i, k + 1, n)

\* ========================================================================
\* Properties
\* ========================================================================

\* C1: when SyncTransactionsForItem has failed (loading categories or rules,
\* the provider call, the upsert or the delete of any page), the item's
\* persisted cursor and pending flag are what they were when the call began,
\* and the error is returned to the caller.
FailedSyncLeavesCursorAndPending ==
    \A p \in Procs :
        proc[p].ret = "err" =>
            LET i == proc[p].cur.item_id
            IN  /\ items[i].cursor = proc[p].pre.cursor
                /\ items[i].pending = proc[p].pre.pending
                /\ proc[p].err
                /\ proc[p].pc = "done"

\* A call failed after it had applied a page that changed the item's rows,
\* on an item whose pending flag was set.
FailedAfterApplyingPage ==
    \E p \in Procs :
        /\ proc[p].ret = "err"
        /\ proc[p].pages >= 1
        /\ proc[p].pre.pending
        /\ RowsOf(txns, proc[p].cur.item_id) # committed[proc[p].cur.item_id].rows

\* C2: a successful run makes exactly one cursor write, after its last page
\* (the one with has_more false): that write stores the page's next_cursor
\* and pending false; while the run is under way it has written nothing and
\* the item's cursor is the one the run began with.
SingleCursorWriteAtEnd ==
    /\ [](\A p \in Procs :
            proc[p].pc \in {"syncLoad", "syncFetch", "syncUpsert", "syncDelete", "syncCommit"} =>
                /\ proc[p].writes = 0
                /\ items[proc[p].cur.item_id].cursor = proc[p].pre.cursor)
    /\ [][\A p \in Procs :
            (proc[p].ret # "ok" /\ proc'[p].ret = "ok") =>
                LET i == proc[p].cur.item_id
                IN  /\ proc[p].pc = "syncCommit"
                    /\ proc'[p].writes = 1
                    /\ ~proc[p].result.has_more
                    /\ items'[i].cursor = Some(proc[p].result.next_cursor)
                    /\ ~items'[i].pending]_vars

\* A run over at least two pages has succeeded.
SucceededOverSeveralPages ==
    \E p \in Procs : proc[p].ret = "ok" /\ proc[p].pages >= 2 /\ proc[p].pre.pending

\* C3: a persisted cursor is null or a token the provider returned for that
\* same item, and a write never replaces it by null or by a token of an
\* earlier position.
CursorProviderValueNoRollback ==
    /\ [](\A i \in Items :
            (items[i].exists /\ IsSome(items[i].cursor)) =>
                LET c == Get(items[i].cursor)
                IN  Len(c) = 2 /\ c[1] = i /\ c[2] \in 0..Len(stream[i]))
    /\ [][\A i \in Items :
            (items[i].exists /\ items'[i].exists /\ items'[i].cursor # items[i].cursor) =>
                /\ IsSome(items'[i].cursor)
                /\ IsSome(items[i].cursor) => Pos(Get(items'[i].cursor)) > Pos(Get(items[i].cursor))]_vars

\* An item whose cursor a sync advanced has since been flagged by a webhook
\* and had the health check post its row with a new status.
AdvancedCursorSurvivesWrites ==
    \E i \in Items :
        /\ items[i].exists
        /\ items[i].cursor = Some(CursorStr(i, 1))
        /\ items[i].pending
        /\ proc["nightly"].hcLast.item_id = i
        /\ proc["nightly"].hcLast.rejected

\* C4: the pending flag of an item goes from true to false only in the last
\* step of a successful SyncTransactionsForItem for that item.
PendingClearedOnlyBySync ==
    [][\A i \in Items :
          (items[i].exists /\ items[i].pending /\ items'[i].exists /\ ~items'[i].pending) =>
              \E p \in Procs : /\ proc[p].pc = "syncCommit"
                               /\ proc[p].cur.item_id = i
                               /\ proc'[p].ret = "ok"]_vars

\* The sync of an item whose flag was set when it began applied a page and
\* failed at its final write: the flag is still set.
PendingSurvivedFailedSync ==
    \E i \in Items :
        /\ items[i].exists
        /\ items[i].pending
        /\ proc["nightly"].pc = "done"
        /\ proc["nightly"].ret = "err"
        /\ proc["nightly"].cur.item_id = i
        /\ proc["nightly"].pre.pending
        /\ proc["nightly"].pages >= 1

\* C5: the store has at most one row per plaid_transaction_id, and when the
\* store has answered the upsert of a page's added/modified records, the
\* row of each equals the record, whether or not its identifier was stored.
UpsertOverwritesRow ==
    /\ [](\A r1, r2 \in txns : r1.plaid_transaction_id = r2.plaid_transaction_id => r1 = r2)
    /\ [][\A p \in Procs :
            (/\ proc[p].pc = "syncUpsert"
             /\ proc'[p].pc # "syncUpsert"
             /\ proc'[p].ret = "err" => proc'[p].rejected) =>
                \A rec \in ToUpsert(proc[p].result, proc[p].rules) : rec \in txns']_vars

\* C6: applying the removed set of a page leaves no row with a removed
\* identifier and changes no other row (so an absent identifier changes
\* nothing).
RemovedRowsDeleted ==
    [][\A p \in Procs :
          (proc[p].pc = "syncDelete" /\ proc'[p].pc \in {"syncFetch", "syncCommit"}) =>
              /\ \A r \in txns' : r.plaid_transaction_id \notin proc[p].result.removed
              /\ \A r \in txns : r.plaid_transaction_id \notin proc[p].result.removed => r \in txns'
              /\ txns' \subseteq txns]_vars

\* A page was applied that removed a transaction the store held since the
\* last completed sync.
RemovedPresentRow ==
    \E p \in Procs :
        /\ proc[p].pc \in {"syncFetch", "syncCommit"}
        /\ proc[p].pages >= 1
        /\ \E t \in proc[p].result.removed :
              /\ \E r \in committed[proc[p].cur.item_id].rows : r.plaid_transaction_id = t
              /\ \A r \in txns : r.plaid_transaction_id # t

\* C7: when a run begun on rows that a failed run had changed, from the
\* cursor that run left in place, has applied its last page, the persisted
\* cursor is still the last committed one and the item's rows equal those of
\* one uninterrupted run from the last committed cursor over the same
\* change-stream; when its final write succeeds, the persisted cursor is the
\* end of the stream it read and the rows are still those.
RerunEqualsUninterruptedRun ==
    /\ [](\A p \in Procs :
            (proc[p].dirty /\ proc[p].pc = "syncCommit") =>
                LET i == proc[p].cur.item_id
                    persisted == IF IsSome(items[i].cursor) THEN Pos(Get(items[i].cursor)) ELSE 0
                    whole == UninterruptedRun(committed[i].rows, i, committed[i].pos, Pos(proc[p].cursor))
                IN  /\ persisted = committed[i].pos
                    /\ Pos(proc[p].cursor) >= committed[i].pos
                    /\ ~whole.err
                    /\ RowsOf(txns, i) = whole.rows)
    /\ [][\A p \in Procs :
            (proc[p].dirty /\ proc[p].pc = "syncCommit" /\ proc'[p].ret = "ok") =>
                LET i == proc[p].cur.item_id
                    whole == UninterruptedRun(committed[i].rows, i, committed[i].pos, Pos(proc[p].cursor))
                IN  /\ items'[i].cursor = Some(proc[p].cursor)
                    /\ RowsOf(txns', i) = whole.rows]_vars

\* A run that removed a stored transaction failed at its final write, and
\* the next run, delivered the same page from the unchanged cursor, has
\* completed.
RerunCompletedAfterFailedRun ==
    \E p \in Procs :
        /\ proc[p].dirty
        /\ proc[p].pc = "syncNext"
        /\ proc[p].ret = "ok"
        /\ proc[p].pages >= 1
        /\ committed[proc[p].cur.item_id].pos >= 2

\* C8: when some rule's lowercased match string is a substring of the
\* lowercased name or merchant name, the category is that of the matching
\* rule with the lowest id, whatever the provider category's alias.
FirstRuleWins ==
    IsSome(catOut) =>
        LET p == Get(catIn)
            matching == {r \in ruleRows :
                            \/ Contains(ToLower(p.name), ToLower(r.match_string))
                            \/ /\ IsSome(p.merchant_name)
                               /\ Contains(ToLower(Get(p.merchant_name)), ToLower(r.match_string))}
        IN  matching # {} =>
                Get(catOut).category_id =
                    Some((CHOOSE r \in matching : \A q \in matching : r.id <= q.id).category_id)

\* Two rules of different categories match, the provider category has an
\* alias of a third category, and the lower rule's category was assigned.
TwoRulesAndAliasMatch ==
    /\ IsSome(catOut)
    /\ \E r1, r2 \in ruleRows :
          /\ r1.id < r2.id
          /\ r1.category_id # r2.category_id
          /\ Contains(ToLower(Get(catIn).name), ToLower(r1.match_string))
          /\ Contains(ToLower(Get(catIn).name), ToLower(r2.match_string))
          /\ Get(catIn).category = <<"Transfer">>
          /\ Get(catOut).category_id = Some(r1.category_id)

\* C9: when no rule matches, the category is the one whose alias is the
\* provider primary category, else Uncategorized; it is never null.
FallbackAlwaysCategorizes ==
    IsSome(catOut) =>
        LET p == Get(catIn)
            matching == {r \in ruleRows :
                            \/ Contains(ToLower(p.name), ToLower(r.match_string))
                            \/ /\ IsSome(p.merchant_name)
                               /\ Contains(ToLower(Get(p.merchant_name)), ToLower(r.match_string))}
            aliased == {c \in Categories : Len(p.category) > 0 /\ c.plaid_name = Some(p.category[1])}
            uncategorized == CHOOSE c \in Categories : c.name = "Uncategorized"
        IN  /\ IsSome(Get(catOut).category_id)
            /\ matching = {} =>
                  Get(catOut).category_id =
                      IF aliased # {} THEN Some((CHOOSE c \in aliased : TRUE).id)
                      ELSE Some(uncategorized.id)

\* C10: after the health check's provider call for an item failed with a
\* code of the reauthentication set (ITEM_ERROR among them) and the store
\* took the write, the item's status is ITEM_LOGIN_REQUIRED.
ReauthCodesSetLoginRequired ==
    LET c == proc["nightly"].hcLast
    IN  (/\ c.outcome.kind = "plaid_error"
         /\ c.outcome.code \in { "ITEM_LOGIN_REQUIRED", "INVALID_ACCESS_TOKEN", "ACCESS_TOKEN_EXPIRED",
                                 "ACCESS_TOKEN_INVALID", "ITEM_ERROR" }
         /\ c.storeOk)
        => items[c.item_id].status = ItemLoginRequired

\* C11: after the health check's provider call for an item failed with an
\* error code that is neither of the reauthentication set nor of the
\* known-transient set, and the store took the write, the item's status is
\* ITEM_LOGIN_REQUIRED.
UnknownCodesSetLoginRequired ==
    LET c == proc["nightly"].hcLast
    IN  (/\ c.outcome.kind = "plaid_error"
         /\ c.outcome.code \notin { "ITEM_LOGIN_REQUIRED", "INVALID_ACCESS_TOKEN", "ACCESS_TOKEN_EXPIRED",
                                    "ACCESS_TOKEN_INVALID", "ITEM_ERROR" }
         /\ c.outcome.code \notin { "RATE_LIMIT_EXCEEDED", "INSTITUTION_DOWN", "TIMEOUT",
                                    "INTERNAL_SERVER_ERROR" }
         /\ c.storeOk)
        => items[c.item_id].status = ItemLoginRequired

\* C12: a health-check provider call that failed with a known-transient
\* cause (rate limit, institution down, timeout, network failure) leaves the
\* item's row, and every other row, as it was: status, cursor and pending
\* flag unchanged, no request made to the store.
TransientFailureWritesNothing ==
    [][ (/\ proc["nightly"].pc = "hcLoop"
         /\ proc'["nightly"].hcTodo # proc["nightly"].hcTodo
         /\ LET o == proc'["nightly"].hcLast.outcome
            IN  \/ o.kind = "network_error"
                \/ /\ o.kind = "plaid_error"
                   /\ o.code \in { "RATE_LIMIT_EXCEEDED", "INSTITUTION_DOWN", "TIMEOUT",
                                   "INTERNAL_SERVER_ERROR" })
        => (items' = items /\ ~proc'["nightly"].hcLast.posted) ]_vars

\* The check of an item with status OK, a saved cursor and the pending flag
\* set has just failed with RATE_LIMIT_EXCEEDED, the store being available.
TransientFailureOnPendingItem ==
    LET c == proc["nightly"].hcLast
    IN  /\ proc["nightly"].pc = "hcLoop"
        /\ c.outcome.kind = "plaid_error"
        /\ c.outcome.code = "RATE_LIMIT_EXCEEDED"
        /\ c.storeOk
        /\ items[c.item_id].exists
        /\ items[c.item_id].status = "OK"
        /\ items[c.item_id].pending
        /\ IsSome(items[c.item_id].cursor)

\* C13: when the health check's provider call for a stored item whose
\* status is ITEM_LOGIN_REQUIRED succeeds and the store answers the write,
\* the item's status is OK afterwards.
SuccessfulCallRestoresOK ==
    [][ (/\ proc["nightly"].pc = "hcLoop"
         /\ proc'["nightly"].hcTodo # proc["nightly"].hcTodo
         /\ proc'["nightly"].hcLast.outcome.kind = "ok"
         /\ proc'["nightly"].hcLast.storeOk
         /\ items[proc'["nightly"].hcLast.item_id].exists
         /\ items[proc'["nightly"].hcLast.item_id].status = ItemLoginRequired)
        => items'[proc'["nightly"].hcLast.item_id].status = "OK" ]_vars

\* C14: the persisted status of every bank item is OK or
\* ITEM_LOGIN_REQUIRED.
BankStatusIsOKOrLoginRequired ==
    \A i \in Items : items[i].exists => items[i].status \in {"OK", ItemLoginRequired}

\* C15: within a nightly run, an item-status lookup of the bank health
\* check has been made only if the bank sync of that run has failed, and
\* the brokerage health check has evaluated the connections only if the
\* snapshot step of that run has failed.
HealthChecksOnlyOnErrorPath ==
    LET run == proc["nightly"]
    IN  /\ run.hcLast.outcome.kind # "none" => run.err
        /\ run.bhLast.kind \in {"list_failed", "accounts_failed", "ok"} => run.err /\ run.pc = "done"

\* C16: a failed brokerage health evaluation (list-connections failed, or
\* it succeeded and list-accounts failed) that could read the stored
\* connections moves each of them one step along OK, ACCOUNT_FETCH_ERROR,
\* CONNECTION_ERROR, CONNECTION_ERROR: that is the status it goes on to
\* write for the connection.
FailedEvaluationEscalates ==
    [][ (/\ proc["nightly"].pc = "bhCheck"
         /\ proc'["nightly"].bhLast.kind \in {"list_failed", "accounts_failed"}
         /\ proc'["nightly"].bhLast.storeOk) =>
            \A c \in ConnIDs :
                conns[c].exists =>
                    /\ c \in DOMAIN proc'["nightly"].bhTodo
                    /\ proc'["nightly"].bhTodo[c] =
                          CASE conns[c].status = "OK" -> "ACCOUNT_FETCH_ERROR"
                            [] conns[c].status = "ACCOUNT_FETCH_ERROR" -> "CONNECTION_ERROR"
                            [] OTHER -> conns[c].status ]_vars

\* C17: a brokerage health evaluation in which list-connections and
\* list-accounts both succeeded, and which could read the stored
\* connections, goes on to write status OK for every stored connection.
SuccessResetsEveryConnection ==
    [][ (/\ proc["nightly"].pc = "bhCheck"
         /\ proc'["nightly"].bhLast.kind = "ok"
         /\ proc'["nightly"].bhLast.storeOk) =>
            \A c \in ConnIDs :
                conns[c].exists =>
                    /\ c \in DOMAIN proc'["nightly"].bhTodo
                    /\ proc'["nightly"].bhTodo[c] = "OK" ]_vars

\* C18: the status of every stored brokerage connection is OK,
\* ACCOUNT_FETCH_ERROR or CONNECTION_ERROR.
BrokerageStatusIsOneOfThree ==
    \A c \in ConnIDs :
        conns[c].exists => conns[c].status \in {"OK", "ACCOUNT_FETCH_ERROR", "CONNECTION_ERROR"}

\* C19: no step of POST /api/snaptrade/sync-connections changes the status
\* of a connection that is stored before and after the step.
SyncConnectionsPreservesStatus ==
    [][ req'["syncConns"] # req["syncConns"] =>
            \A c \in ConnIDs :
                (conns[c].exists /\ conns'[c].exists) => conns'[c].status = conns[c].status ]_vars

\* The handler has posted a list naming a stored connection whose status is
\* ACCOUNT_FETCH_ERROR, and has answered.
SyncConnectionsNamedFailingConnection ==
    \E c \in ConnIDs :
        /\ conns[c].exists
        /\ conns[c].status = "ACCOUNT_FETCH_ERROR"
        /\ http.handler = "syncConns"
        /\ http.status = 500
        /\ c \in http.named

\* C20: there is at most one daily snapshot per date and at most one daily
\* holding per (date, account, symbol); after a snapshot pass every store
\* call of which was answered, the row of the day carries the total the
\* pass computed and the rows of the holdings it upserted carry the values
\* it fetched, whatever rows of the date were stored before.
OneRowPerKeyNewestValues ==
    LET run == proc["nightly"]
    IN  /\ \A r1, r2 \in daily : r1.date = r2.date => r1 = r2
        /\ \A h1, h2 \in holdings :
              (h1.date = h2.date /\ h1.account_id = h2.account_id /\ h1.symbol = h2.symbol) => h1 = h2
        /\ (run.snapLast.fetched /\ run.snapLast.returned /\ ~run.snapLast.unreachable) =>
              /\ [date |-> run.snapLast.date, portfolio_value_cents |-> run.snapLast.total] \in daily
              /\ run.snapLast.tried \subseteq holdings

\* The last calendar day of a month, by the lengths of the months.
LastCalendarDay(date) ==
    \/ date.m \in {1, 3, 5, 7, 8, 10, 12} /\ date.d = 31
    \/ date.m \in {4, 6, 9, 11} /\ date.d = 30
    \/ date.m = 2 /\ date.d = (IF (date.y % 4 = 0 /\ date.y % 100 # 0) \/ date.y % 400 = 0
                               THEN 29 ELSE 28)

\* C21: a snapshot pass writes monthly rows only on the last calendar day
\* of a month (31st of a 31-day month, 30th of a 30-day month, 28 or 29
\* February by the leap-year rule); on such a day a pass whose store calls
\* succeed leaves one row per fetched account, dated to the first of that
\* month, and no pass writes a row of another month or account.
MonthlyRowsIffLastDay ==
    /\ [](LET pass == proc["nightly"].snapLast
          IN  (pass.fetched /\ pass.returned) =>
                /\ ~LastCalendarDay(pass.date) => pass.months = {}
                /\ (LastCalendarDay(pass.date) /\ ~pass.err) =>
                      \A a \in DOMAIN pass.balances :
                          [month |-> [y |-> pass.date.y, m |-> pass.date.m, d |-> 1],
                           account_id |-> a,
                           portfolio_value_cents |-> pass.balances[a]] \in monthly)
    /\ [][ monthly' # monthly =>
             /\ proc["nightly"].pc = "snapMonthly"
             /\ LastCalendarDay(proc["nightly"].snapLast.date)
             /\ monthly \subseteq monthly'
             /\ \A r \in monthly' \ monthly :
                   /\ r.month = [y |-> proc["nightly"].snapLast.date.y,
                                 m |-> proc["nightly"].snapLast.date.m, d |-> 1]
                   /\ r.account_id \in DOMAIN proc["nightly"].snapLast.balances ]_vars

\* A pass on 29 February of a leap year has written the month's rows of two
\* accounts.
MonthlyWrittenOnLeapDay ==
    LET pass == proc["nightly"].snapLast
    IN  /\ proc["nightly"].pc = "done"
        /\ pass.returned
        /\ ~proc["nightly"].err
        /\ pass.date.m = 2 /\ pass.date.d = 29
        /\ pass.months = Accounts
        /\ \A a \in Accounts :
              \E r \in monthly : r.account_id = a /\ r.month = [pass.date EXCEPT !.d = 1]

\* The sum of value_cents over a set of daily holdings.
RECURSIVE HoldingSum(_)
HoldingSum(rows) ==
    IF rows = {} THEN 0
    ELSE LET r == CHOOSE x \in rows : TRUE
         IN  r.value_cents + HoldingSum(rows \ {r})

\* C22: after a pass without error on the last day of a month, the monthly
\* row of each fetched account carries the sum of that account's daily
\* holdings of the day.
MonthlyEqualsHoldingSum ==
    LET run == proc["nightly"]
        date == run.snapLast.date
    IN  (run.pc = "done" /\ run.snapLast.returned /\ run.snapLast.fetched /\ ~run.err
           /\ AddDay(date).m # date.m) =>
            \A a \in DOMAIN run.snapLast.balances :
                \A r \in monthly :
                    (r.month = [date EXCEPT !.d = 1] /\ r.account_id = a) =>
                        r.portfolio_value_cents =
                            HoldingSum({h \in holdings : h.date = date /\ h.account_id = a})

\* The sum of portfolio_value_cents over a set of monthly rows.
RECURSIVE MonthlySum(_)
MonthlySum(rows) ==
    IF rows = {} THEN 0
    ELSE LET r == CHOOSE x \in rows : TRUE
         IN  r.portfolio_value_cents + MonthlySum(rows \ {r})

\* C23: once a pass on the last day of a month has ended without error,
\* whatever passes follow it, the monthly rows of that month add up to the
\* stored daily snapshot of that day.
MonthlySumEqualsLastDaily ==
    \A date \in proc["nightly"].rolled :
        /\ \E r \in daily : r.date = date
        /\ \A r \in daily :
              r.date = date =>
                  MonthlySum({mr \in monthly : mr.month = [date EXCEPT !.d = 1]})
                      = r.portfolio_value_cents

\* After a pass on the last day of a month ended without error, a later
\* pass on that day computed another total and the store answered it.
LaterPassOnRolledDay ==
    LET pass == proc["nightly"].snapLast
    IN  /\ pass.date \in proc["nightly"].rolled
        /\ pass.returned
        /\ pass.rejected
        /\ \E r \in daily : r.date = pass.date /\ r.portfolio_value_cents # pass.total

\* C24: no step removes the daily snapshot of a date, or the daily holding
\* of a (date, account, symbol), unless a monthly row of that date's month
\* exists when the step is taken.
NoDailyDeletionWithoutMonthly ==
    [][ /\ \A r \in daily :
              \/ \E r2 \in daily' : r2.date = r.date
              \/ \E mr \in monthly : mr.month = [r.date EXCEPT !.d = 1]
        /\ \A h \in holdings :
              \/ \E h2 \in holdings' : /\ h2.date = h.date
                                       /\ h2.account_id = h.account_id
                                       /\ h2.symbol = h.symbol
              \/ \E mr \in monthly : mr.month = [h.date EXCEPT !.d = 1] ]_vars

\* A retention pass has deleted the daily snapshots and the daily holdings
\* of a month, and the month has a monthly row.
DailyRowsDeletedWithMonthlyStored ==
    /\ retention.pc = "idle"
    /\ retention.tables = {}
    /\ \E d1, d2 \in retention.deleted : d1 # d2
    /\ \A r \in daily : [r.date EXCEPT !.d = 1] # retention.month
    /\ \A h \in holdings : [h.date EXCEPT !.d = 1] # retention.month
    /\ \E mr \in monthly : mr.month = retention.month
    /\ \E r \in daily : TRUE

\* C25: when the sync of an item fails in a nightly run, the bank step ends
\* there with the run's error: the failing item and the listed items not
\* yet synced keep their cursor and pending = true, and the listed items
\* synced before it have pending = false and the cursor at the end of the
\* provider's stream.
FirstFailureAbortsBankStep ==
    [][ LET run == proc["nightly"]
            after == proc'["nightly"]
        IN  (/\ run.pc \in {"syncLoad", "syncFetch", "syncUpsert", "syncDelete", "syncCommit"}
             /\ after.ret = "err") =>
                /\ after.pc = "done"
                /\ after.err
                /\ \A snap \in run.queue \cup {run.cur} :
                      /\ items'[snap.item_id].pending
                      /\ items'[snap.item_id].cursor = snap.row.cursor
                /\ \A snap \in run.batch \ (run.queue \cup {run.cur}) :
                      /\ ~items'[snap.item_id].pending
                      /\ IsSome(items'[snap.item_id].cursor)
                      /\ Pos(Get(items'[snap.item_id].cursor)) = Len(stream[snap.item_id]) ]_vars

\* A nightly run over two pending items has synced one and failed on the
\* other.
SecondItemFailedAfterFirstSynced ==
    LET run == proc["nightly"]
    IN  /\ run.pc = "done"
        /\ run.ret = "err"
        /\ Cardinality(run.batch) = 2
        /\ \E snap \in run.batch :
              /\ snap.item_id # run.cur.item_id
              /\ ~items[snap.item_id].pending
              /\ Pos(Get(items[snap.item_id].cursor)) > Pos(IF IsSome(snap.row.cursor)
                                                            THEN Get(snap.row.cursor) ELSE EmptyStr)
        /\ items[run.cur.item_id].pending

\* C26: an authorized nightly run ends only through the snapshot pass: the
\* pass is made once in every run, whatever the bank sync did.
SnapshotPassInEveryRun ==
    [][ (proc["nightly"].pc # "done" /\ proc'["nightly"].pc = "done")
            => proc["nightly"].pc \in {"snapshots", "snapHolding", "snapDaily", "snapMonthly"} ]_vars

\* C27: the batch trigger answers unauthorized only to a request that
\* carries the configured secret neither in the X-Cron-Secret header nor in
\* the secret query parameter.
SecretAcceptedInHeaderOrQuery ==
    (http.handler = "daily-sync" /\ http.status = 401) =>
        (http.header # cronSecret /\ http.query # cronSecret)

\* C28: a nightly run in whose snapshot pass a store call failed (the read
\* of the brokerage user, the upsert of a holding, of the daily snapshot or
\* of a monthly row) ends with the run's error.
StoreFailureInPassIsReported ==
    (proc["nightly"].pc = "done" /\ proc["nightly"].snapLast.storeFailed) => proc["nightly"].err

\* C29: a webhook request sets new_transactions_pending on the item it names
\* and on no other, and only when its code is SYNC_UPDATES_AVAILABLE; a
\* request with any other code is answered 200 and changes nothing stored;
\* no webhook request moves a sync, uses the provider, or changes a cursor
\* or a stored transaction.
WebhookOnlyFlagsNamedItem ==
    [][(http' # http /\ http'.handler = "webhook") =>
         /\ txns' = txns /\ ruleRows' = ruleRows /\ committed' = committed
         /\ \A p \in Procs : [proc'[p] EXCEPT !.late = proc[p].late] = proc[p]
         /\ used' = used /\ linkTokens' = linkTokens /\ plaidAccounts' = plaidAccounts
         /\ user' = user /\ conns' = conns /\ daily' = daily
         /\ holdings' = holdings /\ monthly' = monthly
         /\ \A i \in Items :
              /\ items'[i].cursor = items[i].cursor
              /\ items'[i] # items[i] =>
                   /\ http'.method = "POST" /\ http'.validJSON
                   /\ http'.code = "SYNC_UPDATES_AVAILABLE"
                   /\ i = http'.item_id
                   /\ items'[i] = [items[i] EXCEPT !.pending = TRUE]
         /\ (http'.method = "POST" /\ http'.validJSON /\ http'.code # "SYNC_UPDATES_AVAILABLE") =>
              http'.status = 200 /\ items' = items
         /\ (http'.status = 200 /\ http'.code = "SYNC_UPDATES_AVAILABLE"
               /\ http'.item_id \in Items /\ items[http'.item_id].exists) =>
              items'[http'.item_id].pending]_vars

\* A new-data webhook has flagged an item that has an advanced cursor and
\* stored transactions.
WebhookFlaggedSyncedItem ==
    /\ http.handler = "webhook" /\ http.status = 200
    /\ http.code = "SYNC_UPDATES_AVAILABLE" /\ http.item_id = "i1"
    /\ items["i1"].pending /\ items["i1"].cursor # None
    /\ txns # {}

\* C30: a POST to the webhook is answered 400 exactly when its payload is
\* malformed (the body is not JSON, or lacks the webhook_code or the item
\* identifier that a payload carries), 200 when the payload is well formed
\* and its code is not the new-data code, and 500 only when the write of the
\* pending flag fails; a request answered 400 or 500 changes no item's
\* pending flag.
WebhookStatusByPayload ==
    [][(http' # http /\ http'.handler = "webhook" /\ http'.method = "POST") =>
         /\ http'.status = 400 <=> (~http'.validJSON \/ http'.code = "" \/ http'.item_id = "")
         /\ (http'.validJSON /\ http'.code \notin {"", "SYNC_UPDATES_AVAILABLE"} /\ http'.item_id # "") =>
              http'.status = 200
         /\ http'.status = 500 => ~http'.storeOk
         /\ http'.status \in {400, 500} => \A i \in Items : items'[i].pending = items[i].pending]_vars

\* C31: an exchange-token call for an institution that has a stored item
\* leaves exactly one item of that institution, and every account that
\* existed before the call still exists and belongs to an item of that
\* institution or of the one it belonged to, also when a store write of
\* the call fails.
ReconnectKeepsOneItemAndAccounts ==
    [][ LET r == req["exchange"]
        IN  (r.pc \in {"exItem", "exAccounts"} /\ req'["exchange"].pc = "idle" /\ r.pre.items # {}) =>
              /\ Cardinality(GetPlaidItemByInstitutionID(items', r.inst)) = 1
              /\ \A a \in r.pre.accounts :
                    /\ plaidAccounts'[a] # ""
                    /\ items'[plaidAccounts'[a]].exists ]_vars

\* C32: a call of openSnaptradeConnect sends at most one sync request, and
\* sends it exactly when the tab becomes visible while the call's listener
\* is registered (before its 5-minute timeout fired); after that request or
\* the timeout the listener and the timeout are gone and are never set up
\* again; onConnected runs exactly when the request settles, resolved or
\* rejected, and never without a request.
ConnectSyncsAtMostOnce ==
    [][\A c \in Calls :
         LET t == tab.call[c]
             u == tab'.call[c]
         IN  /\ u.syncs <= 1
             /\ u.syncs > t.syncs <=> (t.listening /\ ~tab.visible /\ tab'.visible)
             /\ (u.syncs = 1 \/ u.cleanedUp) => (~u.listening /\ ~u.timerArmed)
             /\ (t.pc \notin {"none", "requested"} /\ ~t.listening) => ~u.listening
             /\ u.callbacks > t.callbacks <=> (t.sync = "pending" /\ u.sync \in {"ok", "failed"})
             /\ u.callbacks > 0 => u.syncs = 1]_vars

\* One call synced on the return to the tab and ran onConnected after the
\* request failed; the other call's timeout fired before any return; the
\* tab is visible.
SyncedOnceAndTimedOut ==
    /\ tab.visible
    /\ tab.call[1].syncs = 1 /\ tab.call[1].sync = "failed" /\ tab.call[1].callbacks = 1
    /\ tab.call[2].pc = "opened" /\ tab.call[2].cleanedUp /\ tab.call[2].syncs = 0

\* C33: the stored cursor of an item changes only by the final write of a
\* sync pass, which stores the pass's own local cursor whatever the stored
\* one is; the write lowers the stored position only when another pass
\* stored a cursor after this pass read the item, and two overlapping passes
\* do reach the state in which the cursor stored last is the older one.
CommitWritesOwnCursor ==
    [][\A i \in Items :
         LET at(c) == IF IsSome(c) THEN Pos(Get(c)) ELSE 0
             committing == {p \in Procs : /\ proc[p].pc = "syncCommit"
                                          /\ proc'[p].pc = "syncNext"
                                          /\ proc[p].cur.item_id = i}
         IN  /\ items'[i].cursor # items[i].cursor => committing # {}
             /\ \A p \in committing :
                  /\ items'[i].cursor = Some(proc[p].cursor)
                  /\ at(items'[i].cursor) < at(items[i].cursor) =>
                       items[i].cursor # proc[p].cur.row.cursor]_vars

\* Both passes wrote their cursor for the item, and the one stored is that
\* of the pass that is behind the other.
OlderCursorPersistedLast ==
    \E p, q \in Procs :
        /\ p # q
        /\ proc[p].ret = "ok" /\ proc[q].ret = "ok"
        /\ proc[p].cur.item_id = "i1" /\ proc[q].cur.item_id = "i1"
        /\ items["i1"].cursor = Some(proc[p].cursor)
        /\ Pos(proc[p].cursor) < Pos(proc[q].cursor)

\* C34: a connection comes to CONNECTION_ERROR only from ACCOUNT_FETCH_ERROR
\* and only in a failed evaluation that follows a failed evaluation: never
\* from OK in one evaluation, and never in a failed evaluation that follows
\* a successful one.
ConnectionErrorNeedsTwoFailuresInARow ==
    [][\A c \in ConnIDs :
         (conns'[c].exists /\ conns'[c].status = "CONNECTION_ERROR"
            /\ ~(conns[c].exists /\ conns[c].status = "CONNECTION_ERROR")) =>
              /\ conns[c].exists /\ conns[c].status = "ACCOUNT_FETCH_ERROR"
              /\ proc'["nightly"].bhLast.kind \in {"list_failed", "accounts_failed"}
              /\ proc'["nightly"].strikes = 2]_vars

\* C35: in a call of SyncTransactionsForItem the first provider call is made
\* with the cursor of the item as it was given (the empty string when it is
\* null) and every later one with the next_cursor of the call before it;
\* the loop makes another call exactly when the page just applied has
\* has_more, and goes to the final write otherwise.
ProviderCallsChainCursors ==
    [][\A p \in Procs :
         LET i == proc[p].cur.item_id
             given == proc[p].cur.row.cursor
             expected == IF proc[p].pages = 0
                         THEN (IF IsSome(given) THEN Get(given) ELSE EmptyStr)
                         ELSE proc[p].result.next_cursor
         IN  /\ (proc[p].pc = "syncFetch" /\ proc'[p].pc = "syncUpsert") =>
                  proc'[p].result = TransactionsSync(i, expected)
             /\ (proc[p].pc = "syncDelete" /\ proc'[p].pc = "syncFetch") =>
                  proc[p].result.has_more
             /\ (proc[p].pc = "syncDelete" /\ proc'[p].pc = "syncCommit") =>
                  ~proc[p].result.has_more
             /\ proc'[p].pc = "syncFetch" => proc[p].pc \in {"syncLoad", "syncDelete", "syncFetch"}]_vars

\* The second provider call of a call that began from a stored cursor has
\* been answered.
SecondCallFromStoredCursor ==
    \E p \in Procs :
        /\ proc[p].pc = "syncUpsert"
        /\ proc[p].pages = 1
        /\ IsSome(proc[p].cur.row.cursor)

\* C36: a new-data webhook that names an item after a sync call fetched the
\* item's last page and before the call's final write leaves a sync owed:
\* the item's pending flag is still set when the call has made its write.
LateWebhookStaysOwed ==
    [][\A p \in Procs :
         (proc[p].pc = "syncCommit" /\ proc'[p].pc = "syncNext" /\ proc[p].late) =>
             items'[proc[p].cur.item_id].pending]_vars

\* C37: the check of an item by checkAndUpdatePlaidItemStatuses leaves the
\* item's cursor and pending flag as they are in the store when the check
\* writes, and leaves every other item's row alone, whatever was written
\* since the check read the list of items.
HealthCheckWritesStatusOnly ==
    [][(proc["nightly"].pc = "hcLoop" /\ proc'["nightly"].hcTodo # proc["nightly"].hcTodo) =>
         \A i \in Items :
             /\ items'[i].cursor = items[i].cursor
             /\ items'[i].pending = items[i].pending
             /\ items'[i].exists = items[i].exists
             /\ items'[i].inst = items[i].inst]_vars

\* C38: while CRON_SECRET is empty no request starts a nightly run: the
\* batch trigger answers every request, also one without X-Cron-Secret
\* header, with 401.
UnsetSecretRejectsEveryRequest ==
    cronSecret = "" =>
        /\ proc["nightly"].pc = "idle"
        /\ http.handler = "daily-sync" => http.status = 401

\* The sum of the per-account totals of a pass.
RECURSIVE BalanceSum(_)
BalanceSum(f) ==
    IF DOMAIN f = {} THEN 0
    ELSE LET a == CHOOSE x \in DOMAIN f : TRUE
         IN  f[a] + BalanceSum([b \in DOMAIN f \ {a} |-> f[b]])

\* C39: a snapshot pass in which the positions of some account could not be
\* fetched goes on: the day's total is the sum of the balances of all
\* accounts, that account included, and is stored; on the last day of the
\* month every account, that one included, gets its monthly row; no holding
\* of that account is written or changed; the holdings of the other
\* accounts are stored; the pass ends without error when no store call
\* failed.
FailedPositionsFetchSkipsHoldingsOnly ==
    /\ [](LET run == proc["nightly"]
              pass == run.snapLast
          IN  (pass.fetched /\ pass.posFailed # {}) =>
                /\ pass.total = BalanceSum(pass.balances)
                /\ pass.posFailed \subseteq DOMAIN pass.balances
                /\ \A h \in pass.tried : h.account_id \notin pass.posFailed
                /\ (pass.returned /\ ~pass.storeFailed) =>
                      /\ ~run.err
                      /\ pass.holdings \subseteq holdings
                      /\ [date |-> pass.date, portfolio_value_cents |-> pass.total] \in daily
                      /\ IsLastDayOfMonth(pass.date) =>
                            \A a \in DOMAIN pass.balances :
                                [month |-> [pass.date EXCEPT !.d = 1], account_id |-> a,
                                 portfolio_value_cents |-> pass.balances[a]] \in monthly)
    /\ [][ proc["nightly"].pc \in {"snapshots", "snapHolding", "snapDaily", "snapMonthly"} =>
              \A a \in proc'["nightly"].snapLast.posFailed :
                  {h \in holdings' : h.account_id = a} = {h \in holdings : h.account_id = a} ]_vars

\* On the last day of a month a pass has ended without error in which the
\* positions of the first account could not be fetched and a holding of the
\* second was stored; both accounts have their monthly row.
PassWithFailedPositionsFetch ==
    LET pass == proc["nightly"].snapLast
    IN  /\ proc["nightly"].pc = "done" /\ ~proc["nightly"].err
        /\ pass.returned
        /\ IsLastDayOfMonth(pass.date)
        /\ pass.posFailed = {"a1"}
        /\ \E h \in pass.holdings : h.account_id = "a2" /\ h \in holdings
        /\ \A a \in Accounts :
              \E r \in monthly : r.account_id = a /\ r.month = [pass.date EXCEPT !.d = 1]
        /\ \E r \in daily : r.date = pass.date /\ r.portfolio_value_cents = pass.total

\* C40: GET /api/budget, when the store answered its reads, is answered
\* with a spent map (no runtime failure, whatever the stored transactions:
\* without category, or with a category id at or beyond the number of
\* categories) in which the entry of each expense category is the sum of
\* the amounts of the month's transactions of that category.
BudgetSpentIsPerCategorySum ==
    (http.handler = "budget" /\ http.readsAnswered) =>
        /\ http.status = 200
        /\ \A k \in DOMAIN http.categories :
             http.categories[k].expense =>
               LET ofCategory == {t \in TransactionsOfMonth(txns, http.month) :
                                      t.category_id = Some(http.categories[k].id)}
                   entry == IF http.categories[k].name \in DOMAIN http.spent
                            THEN http.spent[http.categories[k].name] ELSE 0
               IN  entry = AmountSum(ofCategory)
====
